---- MODULE Spec2Model ----
(***************************************************************************)
(* Model of the ECAM session manager (src/src/ecam/ecam.rs): the inbound   *)
(* pump spawned by Ecam::new, the monitor-polling task write_monitor_loop, *)
(* the consumers' current_state / wait_for_state / packet_tap calls, the   *)
(* handles (clones of Ecam) and the alive latch.                           *)
(* A request's way from its construction to the framed bytes the driver    *)
(* writes (src/src/command.rs, src/src/protocol/packet.rs) is modelled by  *)
(* the variable pkt and the specification PacketSpec.                      *)
(*                                                                         *)
(* Granularity.  main.rs runs under #[tokio::main], the multi-threaded     *)
(* runtime, so spawned tasks and callers run in parallel.  One action is   *)
(* one access to shared state (the alive mutex, a critical section of the  *)
(* internals lock, a semaphore operation, a watch or broadcast operation,  *)
(* a driver call) together with the task-local computation that follows    *)
(* it.  The internals lock is a tokio Mutex whose critical sections hold   *)
(* no await, so each critical section is one atomic action.                *)
(***************************************************************************)
EXTENDS Naturals, Sequences, FiniteSets

VARIABLES
    alive,        \* Ecam.alive: Arc<std::sync::Mutex<bool>>
    lastStatus,   \* value of the watch channel behind EcamInternals.last_status
    watchClosed,  \* the watch Sender tx (owned by the pump task) was dropped
    permits,      \* available permits of ready_lock
    pumpHolds,    \* the pump's ready_lock_semaphore is Some(permit)
    interest,     \* StatusInterest.count
    tapLog,       \* the kind of every output sent on the broadcast packet_tap, in order
    pumpPc,       \* position of the inbound pump task
    pumpExit,     \* why the pump left its loop
    started,      \* the pump's local `started`
    spawned,      \* number of write_monitor_loop tasks spawned
    reads,        \* number of completed driver.read() calls
    pollPc,       \* position of the monitor-polling task
    handles,      \* number of Ecam handles held by consumers
    callers,      \* per consumer task: the call in progress or the tap stream held
    pkt,          \* a request on its way from construction to a framed packet
    inbound,      \* an inbound body on its way through Response::decode
    proj,         \* a MonitorState on its way through EcamStatus::extract
    bt,           \* the BLE peripheral, its liveness watcher and notification stream
    disc,         \* a BLE discovery (EcamBT::scan) in progress
    bus,          \* the message-bus adapter: event loop and the brew task of one order
    drv,          \* a device that answers: the MonitorV2 requests it has not answered yet
    lk,           \* the internals lock: its holder and each task's position around it
    get           \* a connection by id (EcamBT::get) in progress

vars == <<alive, lastStatus, watchClosed, permits, pumpHolds, interest, tapLog,
          pumpPc, pumpExit, started, spawned, reads, pollPc, handles, callers,
          pkt, inbound, proj, bt, disc, bus, drv, lk, get>>

\* the variables outside the session
sideVars == <<pkt, inbound, proj, bt, disc, bus, drv, lk, get>>

\* the session's variables (everything but the packet under construction)
sessionVars == <<alive, lastStatus, watchClosed, permits, pumpHolds, interest, tapLog,
                 pumpPc, pumpExit, started, spawned, reads, pollPc, handles, callers>>

(***************************************************************************)
(* Bounds of the model.                                                    *)
(***************************************************************************)
\* the driver produces at most MaxReads results; the last one closes the stream
MaxReads == 3
\* number of concurrent consumer tasks
NumCallers == 1
\* number of Ecam handles the consumers hold at once
MaxHandles == 2

Callers == 1..NumCallers

(***************************************************************************)
(* Data.                                                                   *)
(***************************************************************************)
\* Option<MonitorState>::None, a record so that it compares with every MonitorState
None == [state |-> "None", progress |-> 0]

\* MonitorState, reduced to the two fields EcamStatus::extract reads.  The States
\* a session's driver delivers: one that projects to Ready and one that differs
\* from it in the progress byte only (every MonitorState goes through the
\* projection under ProjSpec).
MonitorStates ==
    { [state |-> "ReadyOrDispensing", progress |-> 0],
      [state |-> "ReadyOrDispensing", progress |-> 1] }

\* a projection that forgets the progress byte
ExtractStateOnly(s) ==
    IF s.state = "StandBy" THEN "StandBy"
    ELSE IF s.state = "ReadyOrDispensing" THEN "Ready"
    ELSE "Busy"

\* EcamStatus::extract
Extract(s) ==
    IF s.state = "StandBy" THEN "StandBy"
    ELSE IF s.state = "ReadyOrDispensing" /\ s.progress = 0 THEN "Ready"
    ELSE "Busy"

\* a comparison that forgets the progress byte
MatchesStateOnly(target, s) ==
    target = (IF s.state = "StandBy" THEN "StandBy"
              ELSE IF s.state = "ReadyOrDispensing" THEN "Ready" ELSE "Busy")

\* EcamStatus::matches
Matches(target, s) == target = Extract(s)

\* what one driver.read() can return: Ok(Some(output)), Ok(None) or Err
Out(k, s) == [kind |-> k, s |-> s]
TerminalOutputs == {Out("Done", None), Out("EndOfStream", None), Out("Err", None)}
DriverOutputs ==
    {Out("Ready", None), Out("Raw", None)} \cup {Out("State", s) : s \in MonitorStates}
       \cup TerminalOutputs

\* .unwrap_or(EcamOutput::Done): end-of-stream is treated as Done
ReadPacket(out) == IF out.kind = "EndOfStream" THEN Out("Done", None) ELSE out

\* a pump that forwards device packets only
ForwardedPacketsOnly(packet) == packet.kind \in {"Raw", "State"}

\* let _ = packet_tap_sender.send(packet.clone()): every packet, before the match
Forwarded(packet) == TRUE

\* a status cell that keeps the first State it was given
PublishedFirstOnly(ls, packet) == IF ls = None THEN packet.s ELSE ls

\* tx.send(Some(x)): the cell holds the State just read
Published(ls, packet) == packet.s

\* a pump that forgets its `started` flag
ShouldSpawnAlways(st) == TRUE

\* the Ready arm: spawn the polling task unless `started`
ShouldSpawn(st) == ~st

\* a Done arm that does not break
BreaksNever(packet) == FALSE

\* the Done arm: break
BreaksLoop(packet) == packet.kind = "Done"

\* a gate released by the first packet of any kind
ReleasesGateAny(packet) == TRUE

\* the State arm: tx.send(Some(x)), then ready_lock_semaphore.take()
ReleasesGate(packet) == packet.kind = "State"

(***************************************************************************)
(* Bytes, requests and framing (src/src/command.rs, protocol/packet.rs).   *)
(***************************************************************************)
\* u8::MAX: the len byte of a frame is a u8
MaxU8 == 255
\* u16 arithmetic: shifts drop the bits above bit 15
U16 == 65536
\* let mut i: u16 = 7439
ChecksumInit == 7439
\* the preamble 0x0d
Preamble == 13

RECURSIVE BitXor(_, _)
\* a ^ b
BitXor(a, b) ==
    IF a = 0 THEN b
    ELSE IF b = 0 THEN a
    ELSE ((a + b) % 2) + 2 * BitXor(a \div 2, b \div 2)

RECURSIVE BitOr(_, _)
\* a | b
BitOr(a, b) ==
    IF a = 0 THEN b
    ELSE IF b = 0 THEN a
    ELSE (IF a % 2 = 1 \/ b % 2 = 1 THEN 1 ELSE 0) + 2 * BitOr(a \div 2, b \div 2)

RECURSIVE BitAnd(_, _)
\* a & b
BitAnd(a, b) ==
    IF a = 0 \/ b = 0 THEN 0
    ELSE (IF a % 2 = 1 /\ b % 2 = 1 THEN 1 ELSE 0) + 2 * BitAnd(a \div 2, b \div 2)

\* a << n and a >> n on u16
Shl16(a, n) == (a * 2^n) % U16
Shr(a, n) == a \div 2^n

\* a checksum step that forgets to swap the bytes of i
ChecksumStepNoSwap(i, x) ==
    LET i3 == BitXor(i, x)
        i4 == BitXor(i3, Shr(BitAnd(i3, 255), 4))
        i5 == BitXor(i4, Shl16(i4, 12))
    IN  BitXor(i5, Shl16(BitAnd(i5, 255), 5))

\* the body of the loop of checksum
ChecksumStep(i, x) ==
    LET i3 == BitXor(BitOr(Shl16(i, 8), Shr(i, 8)), x)
        i4 == BitXor(i3, Shr(BitAnd(i3, 255), 4))
        i5 == BitXor(i4, Shl16(i4, 12))
    IN  BitXor(i5, Shl16(BitAnd(i5, 255), 5))

RECURSIVE ChecksumLoop(_, _, _, _)
\* for x in buffer { ... }, over buffer[lo..hi] from state i: the bytes are taken
\* left to right (the range is split in halves, and the state after the left half
\* is computed before the right half is entered, to keep the evaluation shallow;
\* i is a u16, so the test on it always succeeds)
ChecksumLoop(i, buffer, lo, hi) ==
    IF lo > hi THEN i
    ELSE IF lo = hi THEN ChecksumStep(i, buffer[lo])
    ELSE LET mid == (lo + hi) \div 2
             left == ChecksumLoop(i, buffer, lo, mid)
         IN  IF left < U16 THEN ChecksumLoop(left, buffer, mid + 1, hi) ELSE left

\* checksum: [(i >> 8) as u8, (i & 0xff) as u8]
Checksum(buffer) ==
    LET i == ChecksumLoop(ChecksumInit, buffer, 1, Len(buffer))
    IN  <<Shr(i, 8) % (MaxU8 + 1), BitAnd(i, 255)>>

\* (buffer.len() + 3).try_into(): Ok iff the value fits a u8
FitsU8(n) == n <= MaxU8

\* a frame whose len byte counts the body only
PacketizeShortLen(buffer) ==
    LET out == <<Preamble, Len(buffer)>> \o buffer
    IN  out \o Checksum(out)

\* packetize, for a buffer whose length fits
Packetize(buffer) ==
    LET out == <<Preamble, Len(buffer) + 3>> \o buffer
    IN  out \o Checksum(out)

\* Request: kind and variant, and the bytes of a Raw
Req(k, a, bytes) == [kind |-> k, arg |-> a, bytes |-> bytes]

\* BrewRequest::encode
BrewEncode(arg) == <<131, 240, 2, 1, 1, 0, 103, 2, 2, 0, 0, 6>>

\* MonitorRequestVersion::encode
MonitorEncode(arg) ==
    CASE arg = "V0" -> <<96, 15>>
      [] arg = "V1" -> <<112, 15>>
      [] arg = "V2" -> <<117, 15>>

\* StateRequest::encode
StateEncode(arg) == <<132, 15, 2, 1>>

\* ParameterRequest::encode is unimplemented!(): every other request encodes
Encodable(r) == r.kind # "Parameter"

\* a Raw that loses its first byte
RequestEncodeRawTail(r) ==
    CASE r.kind = "Brew" -> BrewEncode(r.arg)
      [] r.kind = "Monitor" -> MonitorEncode(r.arg)
      [] r.kind = "State" -> StateEncode(r.arg)
      [] r.kind = "Raw" -> IF r.bytes = <<>> THEN <<>> ELSE Tail(r.bytes)

\* Request::encode
RequestEncode(r) ==
    CASE r.kind = "Brew" -> BrewEncode(r.arg)
      [] r.kind = "Monitor" -> MonitorEncode(r.arg)
      [] r.kind = "State" -> StateEncode(r.arg)
      [] r.kind = "Raw" -> r.bytes

\* the longest of the short bodies Raw requests are built with
MaxBodyLen == 3
BoundedSeqs(S, n) == UNION {[1..k -> S] : k \in 0..n}

\* the requests: the fixed ones, a parameter request, and Raw requests whose
\* bodies are the short sequences of four sample bytes, the body of the tests of
\* packet.rs that no fixed request encodes to, and bodies around the largest one
\* whose len byte fits
Requests ==
    { Req("Brew", "Coffee", <<>>),
      Req("Monitor", "V0", <<>>), Req("Monitor", "V1", <<>>), Req("Monitor", "V2", <<>>),
      Req("State", "TurnOn", <<>>),
      Req("Parameter", "ReadParameter", <<>>) }
    \cup { Req("Raw", "none", b) :
             b \in BoundedSeqs({0, 13, 117, 255}, MaxBodyLen)
                      \cup { <<131, 240, 5, 1, 1, 0, 120, 0, 0, 6>> }
                      \cup { [i \in 1..n |-> 0] : n \in {MaxU8 - 3, MaxU8 - 2} } }

\* a request on its way to the wire: pc is "new" (a Request), "packet" (an
\* EcamPacket<Request> holding the encoded bytes), "framed" (the bytes the driver
\* writes) or "panicked"
Pkt(pc, r, body, frame) == [pc |-> pc, req |-> r, body |-> body, frame |-> frame]
NoPkt == Pkt("none", Req("none", "none", <<>>), <<>>, <<>>)

(***************************************************************************)
(* Responses and their decoding (src/src/command.rs).                      *)
(***************************************************************************)
\* data[i] and &data[i..] of a Rust slice (zero-based); both panic out of bounds
At(data, i) == data[i + 1]
From(data, i) == SubSeq(data, i + 1, Len(data))

\* a MachineState: a unit variant, or Unknown(n)
Variant(tag, n) == [tag |-> tag, n |-> n]

\* MachineState::decode
MachineStateDecode(data) ==
    CASE data = 0 -> Variant("StandBy", 0)
      [] data = 1 -> Variant("TurningOn", 0)
      [] data = 2 -> Variant("ShuttingDown", 0)
      [] data = 4 -> Variant("Descaling", 0)
      [] data = 5 -> Variant("SteamPreparation", 0)
      [] data = 6 -> Variant("Recovery", 0)
      [] data = 7 -> Variant("Ready", 0)
      [] data = 8 -> Variant("Rinsing", 0)
      [] data = 10 -> Variant("MilkPreparation", 0)
      [] data = 11 -> Variant("HotWaterDelivery", 0)
      [] data = 12 -> Variant("MilkCleaning", 0)
      [] OTHER -> Variant("Unknown", data)

\* struct MonitorState
MonitorState(st, pr, pct, l0, l1, raw) ==
    [state |-> st, progress |-> pr, percentage |-> pct, load0 |-> l0, load1 |-> l1,
     raw |-> raw]
NoMonitorState == MonitorState(Variant("none", 0), 0, 0, 0, 0, <<>>)

\* MonitorState::decode indexes data[5] .. data[9]
MonitorStateDecodable(data) == \A i \in 5..9 : i < Len(data)

\* a decoder that reads the fields one byte early
MonitorStateDecodeShifted(data) ==
    MonitorState(MachineStateDecode(At(data, 4)), At(data, 5), At(data, 6),
                 At(data, 7), At(data, 8), data)

\* MonitorState::decode
MonitorStateDecode(data) ==
    MonitorState(MachineStateDecode(At(data, 5)), At(data, 6), At(data, 7),
                 At(data, 8), At(data, 9), data)

\* enum Response: State(MonitorState) or Raw(Vec<u8>)
Response(k, ms, bytes) == [kind |-> k, state |-> ms, bytes |-> bytes]
NoResponse == Response("none", NoMonitorState, <<>>)

\* Response::decode reads data[0] and, for 0x75, slices &data[2..] and decodes it
ResponseDecodable(data) ==
    /\ 0 < Len(data)
    /\ At(data, 0) = 117 => (2 <= Len(data) /\ MonitorStateDecodable(From(data, 2)))

\* Response::decode
ResponseDecode(data) ==
    IF At(data, 0) = 117
    THEN Response("State", MonitorStateDecode(From(data, 2)), <<>>)
    ELSE Response("Raw", NoMonitorState, data)

\* a State body carries up to MaxTail bytes after the twelve the decoder reads
MaxTail == 1
StateBody(st, pr, tail) == <<117, 15, 1, 2, 3, 4, 5, st, pr, 50, 6, 8>> \o tail

\* the bodies a device can send: State bodies with every state byte, their
\* truncations (the empty body included) and bodies with another leading byte
InboundBodies ==
    {StateBody(st, pr, tail) :
        st \in 0..MaxU8, pr \in {0, 1}, tail \in BoundedSeqs({9}, MaxTail)}
    \cup {SubSeq(StateBody(7, 0, <<>>), 1, n) : n \in 0..11}
    \cup {<<b>> \o SubSeq(StateBody(7, 0, <<>>), 2, n) : b \in {0, 13, 116, 118, 208}, n \in 1..12}

Inbound(pc, body, resp) == [pc |-> pc, body |-> body, resp |-> resp]
NoInbound == Inbound("none", <<>>, NoResponse)

\* the machine states a MonitorState can hold (hardware_enums::EcamMachineState,
\* used by ecam.rs; Unknown stands for Unknown(n) with any n) and every progress byte
EcamMachineStates ==
    {"StandBy", "TurningOn", "ShuttingDown", "Descaling", "SteamPreparation",
     "Recovery", "ReadyOrDispensing", "Rinsing", "MilkPreparation",
     "HotWaterDelivery", "MilkCleaning", "Unknown"}

Proj(pc, s, status) == [pc |-> pc, s |-> s, status |-> status]
NoProj == Proj("none", None, "none")
\* the BLE side of a session: whether the peripheral is connected, the position of
\* the liveness watcher spawned by notifications(), and the Trigger of the Tripwire
Bt(connected, watcher, trigger) ==
    [connected |-> connected, watcher |-> watcher, trigger |-> trigger]
NoBt == Bt(FALSE, "none", "none")
\* a discovery (EcamBT::scan): n the number of adapters the manager lists, a the
\* adapter being searched, polls the polls made on it, slept whether a sleep came
\* since the last poll, list the peripherals of the last poll still to validate,
\* scanning the adapters whose scan runs, exposed whether some poll listed an ECAM,
\* returns the results of get_ecam_from_adapter so far, result the result of scan
Disc(pc, n, a, polls, slept, list, scanning, exposed, returns, result) ==
    [pc |-> pc, n |-> n, a |-> a, polls |-> polls, slept |-> slept, list |-> list,
     scanning |-> scanning, exposed |-> exposed, returns |-> returns,
     result |-> result]
NoDisc == Disc("none", 0, 0, 0, FALSE, <<>>, {}, FALSE, <<>>, "none")
\* the message-bus adapter: loop the state of the event loop task, handled the
\* events it has handled and last the latest of them, tasks the brew tasks spawned,
\* broker whether the broker takes what is published; and of the brew task of
\* the first order: pc its position, feed the outputs its session has forwarded
\* to the packet tap since the task subscribed, cur how many of them tap.next()
\* has delivered, last_status its local of that name, published the statuses of
\* the messages published on <prefix>/<order_id>
NoEvent == [kind |-> "none", dup |-> FALSE, topic |-> FALSE, parses |-> FALSE]
NoBus ==
    [loop |-> "none", handled |-> 0, last |-> NoEvent, tasks |-> 0, broker |-> "up",
     pc |-> "none", feed |-> <<>>, cur |-> 0, last_status |-> "None",
     published |-> <<>>]
\* a device that answers (it notifies Ready once the link is up and a State for
\* every MonitorV2 request written to it): on whether the session runs on it,
\* asked the number of requests written that it has not answered yet
NoDrv == [on |-> FALSE, asked |-> 0]
\* the tasks that lock EcamInternals: the pump (Ecam::new), the polling task
\* (write_monitor_loop) and a consumer in each of current_state, wait_for_state
\* and packet_tap
LkTasks == {"pump", "poller", "cs", "wait", "tap"}
\* the internals lock (tokio::sync::Mutex<EcamInternals>): holder the task that
\* holds the guard, pc every task's position: "want" in internals.lock().await,
\* "locked" in its critical section, then the await it is suspended on ("read" a
\* driver read, "sleep", "write" a driver write under its deadline, "gate" the
\* ready gate, "changed" a last_status change), "done" returned or ended
NoLk == [holder |-> "none", pc |-> [t \in LkTasks |-> "none"]]
\* EcamBT::get: pc the position of get_ecam_from_manager, lists for every adapter
\* of the manager the ids of the peripherals it lists ("wanted" the requested id),
\* a the adapter the loop is at, task the position of the task spawned for it,
\* chan the adapters whose EcamBT is in the mpsc channel, result what get
\* returned and by the adapter whose EcamBT it returned
NoGet == [pc |-> "none", lists |-> <<>>, a |-> 0, task |-> "none", chan |-> <<>>,
          result |-> "none", by |-> 0]

\* the results of a call: Ok(()) / Ok(status) / Err(EcamError::Unknown) / a transport
\* error (EcamError::BTError, EcamError::IOError)
Res(k, st) == [kind |-> k, status |-> st]

\* a consumer task: op is the call in progress ("cs" current_state, "wait"
\* wait_for_state, "tap" a packet_tap stream), target the awaited status, unseen
\* whether the watch version differs from the one its receiver has seen, cur the
\* number of tapLog entries its stream is past, item the position in tapLog of the
\* output its stream delivered last (0: none yet), res the result of the call
NoCall == [op |-> "none", pc |-> "idle", target |-> "none", unseen |-> FALSE,
           cur |-> 0, item |-> 0, res |-> Res("none", "none")]

SessionInit ==
    /\ alive = TRUE
    /\ lastStatus = None
    /\ watchClosed = FALSE
    /\ permits = 0          \* Semaphore::new(1), acquired by Ecam::new ...
    /\ pumpHolds = TRUE     \* ... into ready_lock_semaphore, moved into the pump
    /\ interest = 0
    /\ tapLog = <<>>
    /\ pumpPc = "head"
    /\ pumpExit = "none"
    /\ started = FALSE
    /\ spawned = 0
    /\ reads = 0
    /\ pollPc = "none"
    /\ handles = 1
    /\ callers = [c \in Callers |-> NoCall]

\* the state after Ecam::new; no packet is under construction
Init ==
    /\ SessionInit
    /\ pkt = NoPkt
    /\ inbound = NoInbound
    /\ proj = NoProj
    /\ bt = NoBt
    /\ disc = NoDisc
    /\ bus = NoBus
    /\ drv = NoDrv
    /\ lk = NoLk
    /\ get = NoGet

(***************************************************************************)
(* The inbound pump (the task spawned by Ecam::new).                       *)
(***************************************************************************)
\* while ecam.is_alive() { start driver.read() }
PumpHead ==
    /\ pumpPc = "head"
    /\ IF alive
       THEN /\ pumpPc' = "read"
            /\ UNCHANGED pumpExit
       ELSE /\ pumpPc' = "closed"
            /\ pumpExit' = "dead"
    /\ UNCHANGED <<alive, lastStatus, watchClosed, permits, pumpHolds, interest,
                   tapLog, started, spawned, reads, pollPc, handles, callers, sideVars>>

\* driver.read() returned a transport error: `?` leaves the task
PumpReadErr ==
    /\ pumpPc = "read"
    /\ reads < MaxReads
    /\ reads' = reads + 1
    /\ pumpPc' = "unwind"
    /\ pumpExit' = "error"
    /\ UNCHANGED <<alive, lastStatus, watchClosed, permits, pumpHolds, interest,
                   tapLog, started, spawned, pollPc, handles, callers, sideVars>>

\* the consumers that hold a receiver of the watch channel: the wait_for_state
\* calls that have not decided yet
Receiving(c) == callers[c].op = "wait" /\ callers[c].pc # "ret"

\* driver.read() returned Ok: packet_tap_sender.send(packet.clone()), then the
\* match.  tx.send(Some(x)) bumps the watch version, so every receiver has an
\* unseen value (tx.send cannot fail: internals, kept by the pump's own handle,
\* holds a receiver); the gate is released in the next step if still held.
PumpReadStep(out) ==
    /\ pumpPc = "read"
    /\ out.kind # "Err"
    /\ reads' = reads + 1
    /\ LET packet == ReadPacket(out) IN
       /\ tapLog' = IF Forwarded(packet) THEN Append(tapLog, packet.kind) ELSE tapLog
       /\ IF packet.kind = "Ready"
          THEN /\ IF ShouldSpawn(started)
                  THEN /\ spawned' = spawned + 1
                       /\ pollPc' = "head"
                  ELSE UNCHANGED <<spawned, pollPc>>
               /\ started' = TRUE
               /\ pumpPc' = "head"
               /\ UNCHANGED <<lastStatus, pumpExit, callers>>
          ELSE IF BreaksLoop(packet)
          THEN /\ pumpPc' = "closed"
               /\ pumpExit' = "done"
               /\ UNCHANGED <<lastStatus, started, spawned, pollPc, callers>>
          ELSE /\ IF packet.kind = "State"
                  THEN /\ lastStatus' = Published(lastStatus, packet)
                       /\ callers' = [c \in DOMAIN callers |->
                                         IF Receiving(c)
                                         THEN [callers[c] EXCEPT !.unseen = TRUE]
                                         ELSE callers[c]]
                  ELSE UNCHANGED <<lastStatus, callers>>
               /\ pumpPc' = IF ReleasesGate(packet) /\ pumpHolds
                            THEN "release" ELSE "head"
               /\ UNCHANGED <<pumpExit, started, spawned, pollPc>>
    /\ UNCHANGED <<alive, watchClosed, permits, pumpHolds, interest, handles, sideVars>>

\* the driver of the session produces MaxReads results, the last one terminal
PumpRead(out) ==
    /\ reads < MaxReads
    /\ reads + 1 = MaxReads => out \in TerminalOutputs
    /\ PumpReadStep(out)

\* ready_lock_semaphore.take(): the first State releases the ready gate
PumpRelease ==
    /\ pumpPc = "release"
    /\ pumpHolds' = FALSE
    /\ permits' = permits + 1
    /\ pumpPc' = "head"
    /\ UNCHANGED <<alive, lastStatus, watchClosed, interest, tapLog, pumpExit,
                   started, spawned, reads, pollPc, handles, callers, sideVars>>

\* println!("Closed"); ecam.deaden()
PumpClosed ==
    /\ pumpPc = "closed"
    /\ alive' = FALSE
    /\ pumpPc' = "unwind"
    /\ UNCHANGED <<lastStatus, watchClosed, permits, pumpHolds, interest, tapLog,
                   pumpExit, started, spawned, reads, pollPc, handles, callers, sideVars>>

\* the task ends and its captures are dropped.  ecam: Drop for Ecam deadens;
\* tx: the watch channel closes; ready_lock_semaphore: a permit still held
\* goes back to ready_lock
PumpDrop ==
    /\ pumpPc = "unwind"
    /\ alive' = FALSE
    /\ watchClosed' = TRUE
    /\ permits' = IF pumpHolds THEN permits + 1 ELSE permits
    /\ pumpHolds' = FALSE
    /\ pumpPc' = "exited"
    /\ UNCHANGED <<lastStatus, interest, tapLog, pumpExit, started, spawned, reads,
                   pollPc, handles, callers, sideVars>>

Pump ==
    \/ PumpHead
    \/ PumpReadErr
    \/ \E out \in DriverOutputs : PumpRead(out)
    \/ PumpRelease
    \/ PumpClosed
    \/ PumpDrop

(***************************************************************************)
(* The monitor-polling task (Ecam::write_monitor_loop).                    *)
(***************************************************************************)
\* a polling task that does not look at alive
PollHeadBlind ==
    /\ pollPc = "head"
    /\ pollPc' = "check"
    /\ UNCHANGED <<alive, lastStatus, watchClosed, permits, pumpHolds, interest,
                   tapLog, pumpPc, pumpExit, started, spawned, reads, handles,
                   callers, sideVars>>

\* while self.is_alive()
PollHead ==
    /\ pollPc = "head"
    /\ pollPc' = IF alive THEN "check" ELSE "closing"
    /\ UNCHANGED <<alive, lastStatus, watchClosed, permits, pumpHolds, interest,
                   tapLog, pumpPc, pumpExit, started, spawned, reads, handles,
                   callers, sideVars>>

\* the decision taken under the internals lock: status_interest.count() == 0
IdlePoll(count) == count = 0

\* if self.internals.lock().await.status_interest.count() == 0 { sleep; continue }
PollCheck ==
    /\ pollPc = "check"
    /\ pollPc' = IF IdlePoll(interest) THEN "sleep" ELSE "write"
    /\ UNCHANGED <<alive, lastStatus, watchClosed, permits, pumpHolds, interest,
                   tapLog, pumpPc, pumpExit, started, spawned, reads, handles,
                   callers, sideVars>>

\* tokio::time::sleep(100 ms) when idle, sleep(250 ms) after a write
PollSleep ==
    /\ pollPc = "sleep"
    /\ pollPc' = "head"
    /\ UNCHANGED <<alive, lastStatus, watchClosed, permits, pumpHolds, interest,
                   tapLog, pumpPc, pumpExit, started, spawned, reads, handles,
                   callers, sideVars>>

\* self.driver.write(status_request.clone()) is issued (MonitorV2)
PollWrite ==
    /\ pollPc = "write"
    /\ pollPc' = "inflight"
    /\ UNCHANGED <<alive, lastStatus, watchClosed, permits, pumpHolds, interest,
                   tapLog, pumpPc, pumpExit, started, spawned, reads, handles,
                   callers, sideVars>>

\* the three arms of the match on timeout(250 ms, write): the write returned Ok
\* (the arm sleeps 250 ms), the write returned an error, at once or later (the arm
\* warns), or the 250 ms went by before the write returned (the arm warns and
\* the loop is back at its head)
PollWriteStep(outcome) ==
    /\ pollPc = "inflight"
    /\ pollPc' = IF outcome = "ok" THEN "sleep"
                 ELSE IF outcome = "timeout" THEN "head" ELSE "warned"
    /\ UNCHANGED <<alive, lastStatus, watchClosed, permits, pumpHolds, interest,
                   tapLog, pumpPc, pumpExit, started, spawned, reads, handles,
                   callers>>

\* the match, on a driver the model tells nothing about
PollWriteDone(outcome) == PollWriteStep(outcome) /\ UNCHANGED sideVars

\* a polling task that gives up after a failed write
PollWarnedDies ==
    /\ pollPc = "warned"
    /\ pollPc' = "closing"
    /\ UNCHANGED <<alive, lastStatus, watchClosed, permits, pumpHolds, interest,
                   tapLog, pumpPc, pumpExit, started, spawned, reads, handles,
                   callers, sideVars>>

\* Ok(Err(_)) => warning!("Failed to request status"): the arm ends, without a
\* sleep, and the loop goes on
PollWarned ==
    /\ pollPc = "warned"
    /\ pollPc' = "head"
    /\ UNCHANGED <<alive, lastStatus, watchClosed, permits, pumpHolds, interest,
                   tapLog, pumpPc, pumpExit, started, spawned, reads, handles,
                   callers, sideVars>>

\* warning!("Sending loop died."); self.deaden(); then self is dropped
PollClosing ==
    /\ pollPc = "closing"
    /\ alive' = FALSE
    /\ pollPc' = "exited"
    /\ UNCHANGED <<lastStatus, watchClosed, permits, pumpHolds, interest, tapLog,
                   pumpPc, pumpExit, started, spawned, reads, handles, callers, sideVars>>

Poller ==
    \/ PollHead
    \/ PollCheck
    \/ PollSleep
    \/ PollWrite
    \/ \E outcome \in {"ok", "err", "timeout"} : PollWriteDone(outcome)
    \/ PollWarned
    \/ PollClosing

(***************************************************************************)
(* Consumers: current_state, wait_for_state and packet_tap.                *)
(***************************************************************************)
\* a current_state or wait_for_state call in progress
InCall(c) == callers[c].op \in {"cs", "wait"}

\* a call on &self in progress borrows the handle it was made on
Borrows(c) == callers[c].op \in {"cs", "wait", "write"}

\* current_state: lock internals, status_interest.lock(), clone rx and ready_lock
CSEnter(c) ==
    /\ callers[c].pc = "idle"
    /\ handles >= 1
    /\ interest' = interest + 1
    /\ callers' = [callers EXCEPT ![c] = [NoCall EXCEPT !.op = "cs", !.pc = "gate"]]
    /\ UNCHANGED <<alive, lastStatus, watchClosed, permits, pumpHolds, tapLog,
                   pumpPc, pumpExit, started, spawned, reads, pollPc, handles, sideVars>>

\* ready_lock.acquire_owned().await (the semaphore is never closed)
CSAcquire(c) ==
    /\ callers[c].pc = "gate"
    /\ permits >= 1
    /\ permits' = permits - 1
    /\ callers' = [callers EXCEPT ![c].pc = "holding"]
    /\ UNCHANGED <<alive, lastStatus, watchClosed, pumpHolds, interest, tapLog,
                   pumpPc, pumpExit, started, spawned, reads, pollPc, handles, sideVars>>

\* a current_state that answers Ok(Unknown) when no State was seen
CurrentStateResultDefault(ls) ==
    IF ls # None THEN Res("Ok", Extract(ls)) ELSE Res("Ok", "Unknown")

\* if let Some(test) = rx.borrow().as_ref() { Ok(extract(test)) } else { Err(Unknown) }
CurrentStateResult(ls) ==
    IF ls # None THEN Res("Ok", Extract(ls)) ELSE Res("ErrUnknown", "none")

\* a current_state that keeps the permit it acquired
CSReleaseKept(c) ==
    /\ callers[c].pc = "holding"
    /\ callers' = [callers EXCEPT ![c].pc = "ret",
                                  ![c].res = CurrentStateResult(lastStatus)]
    /\ UNCHANGED <<alive, lastStatus, watchClosed, permits, pumpHolds, interest, tapLog,
                   pumpPc, pumpExit, started, spawned, reads, pollPc, handles, sideVars>>

\* drop(permit); let ret = ...
CSRelease(c) ==
    /\ callers[c].pc = "holding"
    /\ permits' = permits + 1
    /\ callers' = [callers EXCEPT ![c].pc = "ret",
                                  ![c].res = CurrentStateResult(lastStatus)]
    /\ UNCHANGED <<alive, lastStatus, watchClosed, pumpHolds, interest, tapLog,
                   pumpPc, pumpExit, started, spawned, reads, pollPc, handles, sideVars>>

\* internals.last_status is only ever cloned, never marked seen, so a clone
\* starts at the channel's initial version: the value is unseen as soon as one
\* State was published
CloneUnseen(ls) == ls # None

\* wait_for_state: lock internals, clone rx, status_interest.lock()
WEnter(c, target) ==
    /\ callers[c].pc = "idle"
    /\ handles >= 1
    /\ interest' = interest + 1
    /\ callers' = [callers EXCEPT ![c] = [NoCall EXCEPT !.op = "wait", !.pc = "check",
                                                        !.target = target,
                                                        !.unseen = CloneUnseen(lastStatus)]]
    /\ UNCHANGED <<alive, lastStatus, watchClosed, permits, pumpHolds, tapLog,
                   pumpPc, pumpExit, started, spawned, reads, pollPc, handles, sideVars>>

\* if let Some(test) = rx.borrow().as_ref() { if state.matches(test) { return Ok(()) } }
WCheck(c) ==
    /\ callers[c].pc = "check"
    /\ IF lastStatus # None /\ Matches(callers[c].target, lastStatus)
       THEN callers' = [callers EXCEPT ![c].pc = "ret", ![c].unseen = FALSE,
                                       ![c].res = Res("Ok", "none")]
       ELSE callers' = [callers EXCEPT ![c].pc = "waiting"]
    /\ UNCHANGED <<alive, lastStatus, watchClosed, permits, pumpHolds, interest,
                   tapLog, pumpPc, pumpExit, started, spawned, reads, pollPc,
                   handles, sideVars>>

\* a wait_for_state that swallows the failure of the notification channel
WatchClosedOk == Res("Ok", "none")

\* .map_err(|_| EcamError::Unknown)?
WatchClosedError == Res("ErrUnknown", "none")

\* rx.changed().await: Ok once the version differs from the one seen (checked
\* first), Err once the Sender is dropped, pending otherwise
WChanged(c) ==
    /\ callers[c].pc = "waiting"
    /\ IF callers[c].unseen
       THEN callers' = [callers EXCEPT ![c].pc = "check", ![c].unseen = FALSE]
       ELSE /\ watchClosed
            /\ callers' = [callers EXCEPT ![c].pc = "ret", ![c].res = WatchClosedError]
    /\ UNCHANGED <<alive, lastStatus, watchClosed, permits, pumpHolds, interest,
                   tapLog, pumpPc, pumpExit, started, spawned, reads, pollPc,
                   handles, sideVars>>

\* a handle whose drop leaves the count as it was
InterestAfterDropKept(count) == count

\* Drop for StatusInterestHandle: *self.count.lock().unwrap() -= 1
InterestAfterDrop(count) == count - 1

\* the call returns: the StatusInterestHandle, if the call took one, is dropped
Return(c) ==
    /\ callers[c].pc = "ret"
    /\ interest' = IF InCall(c) THEN InterestAfterDrop(interest) ELSE interest
    /\ callers' = [callers EXCEPT ![c] = NoCall]
    /\ UNCHANGED <<alive, lastStatus, watchClosed, permits, pumpHolds, tapLog,
                   pumpPc, pumpExit, started, spawned, reads, pollPc, handles, sideVars>>

\* the caller drops the future of its call at an await (ready_lock.acquire_owned()
\* or rx.changed()): the StatusInterestHandle the future owns is dropped with it
Cancel(c) ==
    /\ InCall(c)
    /\ callers[c].pc \in {"gate", "waiting"}
    /\ interest' = InterestAfterDrop(interest)
    /\ callers' = [callers EXCEPT ![c] = NoCall]
    /\ UNCHANGED <<alive, lastStatus, watchClosed, permits, pumpHolds, tapLog,
                   pumpPc, pumpExit, started, spawned, reads, pollPc, handles, sideVars>>

\* what the driver's write can give back to a consumer: Ok(()) or a transport error
DriverWriteResult(outcome) ==
    IF outcome = "ok" THEN Res("Ok", "none") ELSE Res("ErrTransport", "none")

\* a write that swallows the driver's error
EcamWriteResultOk(driverResult) == Res("Ok", "none")

\* Ecam::write: the value of self.driver.write(..).await is the value of the call
EcamWriteResult(driverResult) == driverResult

\* write(packet): self.driver.write(packet.encode()).await; nothing of the session
\* is read or written
Write(c, outcome) ==
    /\ callers[c].pc = "idle"
    /\ handles >= 1
    /\ callers' = [callers EXCEPT ![c] =
                      [NoCall EXCEPT !.op = "write", !.pc = "ret",
                                     !.res = EcamWriteResult(DriverWriteResult(outcome))]]
    /\ UNCHANGED <<alive, lastStatus, watchClosed, permits, pumpHolds, interest,
                   tapLog, pumpPc, pumpExit, started, spawned, reads, pollPc,
                   handles, sideVars>>

\* every Arc of the broadcast Sender is gone: internals (kept by each handle, the
\* pump's and the poller's included) and the pump's packet_tap_sender
TapClosed ==
    /\ handles = 0
    /\ pumpPc = "exited"
    /\ pollPc \in {"none", "exited"}

\* tokio::sync::broadcast::channel(100): the outputs the channel retains
TapCapacity == 100

\* the receiver fell behind: outputs it has not seen were overwritten
Lagging(c) == Len(tapLog) - callers[c].cur > TapCapacity

\* a receiver that hands out the newest output
TapItemNewest(log, cur) == Len(log)

\* the receiver hands out the oldest output it has not seen
TapItem(log, cur) == cur + 1

\* packet_tap(): internals.packet_tap.subscribe() sees what is sent from now on
PacketTap(c) ==
    /\ callers[c].pc = "idle"
    /\ handles >= 1
    /\ callers' = [callers EXCEPT ![c] = [NoCall EXCEPT !.op = "tap", !.pc = "open",
                                                        !.cur = Len(tapLog)]]
    /\ UNCHANGED <<alive, lastStatus, watchClosed, permits, pumpHolds, interest,
                   tapLog, pumpPc, pumpExit, started, spawned, reads, pollPc,
                   handles, sideVars>>

\* stream.next(): the next buffered output, or the end once the channel is closed
TapNext(c) ==
    /\ callers[c].pc = "open"
    /\ ~Lagging(c)
    /\ IF callers[c].cur < Len(tapLog)
       THEN callers' = [callers EXCEPT ![c].cur = callers[c].cur + 1,
                                       ![c].item = TapItem(tapLog, callers[c].cur)]
       ELSE /\ TapClosed
            /\ callers' = [callers EXCEPT ![c].pc = "ended"]
    /\ UNCHANGED <<alive, lastStatus, watchClosed, permits, pumpHolds, interest,
                   tapLog, pumpPc, pumpExit, started, spawned, reads, pollPc,
                   handles, sideVars>>

\* stream.next() of a receiver that fell behind: the receiver skips to the oldest
\* output retained and BroadcastStream yields Err(Lagged(n)), on which
\* .map(|x| x.expect("Unexpected receive error")) panics
TapLagged(c) ==
    /\ callers[c].pc = "open"
    /\ Lagging(c)
    /\ callers' = [callers EXCEPT ![c].pc = "panicked",
                                  ![c].cur = Len(tapLog) - TapCapacity]
    /\ UNCHANGED <<alive, lastStatus, watchClosed, permits, pumpHolds, interest,
                   tapLog, pumpPc, pumpExit, started, spawned, reads, pollPc,
                   handles, sideVars>>

\* the consumer drops its stream
TapDrop(c) ==
    /\ callers[c].op = "tap"
    /\ callers' = [callers EXCEPT ![c] = NoCall]
    /\ UNCHANGED <<alive, lastStatus, watchClosed, permits, pumpHolds, interest,
                   tapLog, pumpPc, pumpExit, started, spawned, reads, pollPc,
                   handles, sideVars>>

Consumer ==
    \E c \in Callers :
        \/ CSEnter(c)
        \/ CSAcquire(c)
        \/ CSRelease(c)
        \* the target consumers wait for: Ready, the status whose projection reads
        \* both the state and the progress byte
        \/ \E target \in {"Ready"} : WEnter(c, target)
        \/ WCheck(c)
        \/ WChanged(c)
        \/ Return(c)
        \/ Cancel(c)
        \/ \E outcome \in {"ok", "err"} : Write(c, outcome)
        \/ PacketTap(c)
        \/ TapNext(c)
        \/ TapDrop(c)

(***************************************************************************)
(* Handles: #[derive(Clone)] on Ecam and impl Drop for Ecam.               *)
(***************************************************************************)
\* ecam.clone(): the three Arcs are cloned, alive is shared and untouched
CloneHandle ==
    /\ handles >= 1
    /\ handles < MaxHandles
    /\ handles' = handles + 1
    /\ UNCHANGED <<alive, lastStatus, watchClosed, permits, pumpHolds, interest,
                   tapLog, pumpPc, pumpExit, started, spawned, reads, pollPc,
                   callers, sideVars>>

\* a Drop that writes "handles remain" into the latch
AliveAfterDropCounted(a, left) == left > 0

\* impl Drop for Ecam: self.deaden(), whatever the number of handles left
AliveAfterDrop(a, left) == FALSE

\* a consumer drops a handle (a call in progress borrows one)
DropHandle ==
    /\ handles >= 1
    /\ handles > 1 \/ \A c \in Callers : ~Borrows(c)
    /\ handles' = handles - 1
    /\ alive' = AliveAfterDrop(alive, handles - 1)
    /\ UNCHANGED <<lastStatus, watchClosed, permits, pumpHolds, interest, tapLog,
                   pumpPc, pumpExit, started, spawned, reads, pollPc, callers, sideVars>>

Next ==
    \/ Pump
    \/ Poller
    \/ Consumer
    \/ CloneHandle
    \/ DropHandle

(***************************************************************************)
(* The packet tap under a long stream: the pump forwarding device packets  *)
(* and one subscriber, which may fall behind by more than TapCapacity.     *)
(***************************************************************************)
\* the driver of this specification produces MaxSends packets (no State, no Done)
MaxSends == 102

\* driver.read() returned a packet the match ignores
TapPumpRead ==
    /\ reads < MaxSends
    /\ PumpReadStep(Out("Raw", None))

TapNextStep ==
    \/ PumpHead
    \/ TapPumpRead
    \/ \E c \in {1} :
          \/ PacketTap(c)
          \/ TapNext(c)
          \/ TapLagged(c)
          \/ TapDrop(c)

TapSpec == Init /\ [][TapNextStep]_vars

(***************************************************************************)
(* The session under current_state calls, with the scheduling tokio gives: *)
(* a task that can run does run.  The polling task keeps looping, a call   *)
(* that can proceed proceeds and the pump handles what it has read; the    *)
(* driver alone decides whether and when a read completes.                 *)
(***************************************************************************)
CallNext ==
    \/ Pump
    \/ Poller
    \/ \E c \in Callers :
          \/ CSEnter(c)
          \/ CSAcquire(c)
          \/ CSRelease(c)
          \/ Return(c)

FairSpec ==
    /\ Init
    /\ [][CallNext]_vars
    /\ WF_vars(Poller)
    /\ WF_vars(PumpHead \/ PumpRelease \/ PumpClosed \/ PumpDrop)
    /\ \A c \in Callers : WF_vars(CSAcquire(c) \/ CSRelease(c) \/ Return(c))

(***************************************************************************)
(* The session while consumers call current_state, clone handles and drop  *)
(* them (Drop for Ecam clears alive), with the same scheduling: a task     *)
(* that can run does run, a sleep ends and the 250 ms deadline of a write  *)
(* passes; the driver alone decides whether and when a read completes.     *)
(***************************************************************************)
ShutdownNext ==
    \/ CallNext
    \/ CloneHandle
    \/ DropHandle

ShutdownSpec ==
    /\ Init
    /\ [][ShutdownNext]_vars
    /\ WF_vars(Poller)
    /\ WF_vars(PumpHead \/ PumpRelease \/ PumpClosed \/ PumpDrop)
    /\ \A c \in Callers : WF_vars(CSAcquire(c) \/ CSRelease(c) \/ Return(c))

(***************************************************************************)
(* The internals lock.  Every task of the session and every consumer call  *)
(* takes the lock for one critical section and goes on to its awaits.  A   *)
(* task that can run does run, and tokio's Mutex is fair (the guard goes   *)
(* to the tasks in the order they asked); whether and when an await on the *)
(* driver, the ready gate or last_status ends is not the task's to decide. *)
(***************************************************************************)
\* what follows the critical section of task t: the pump's loop awaits
\* driver.read(); the polling task sleeps 100 ms or awaits its write;
\* current_state awaits ready_lock.acquire_owned(); wait_for_state awaits
\* rx.changed() unless the status matches already; packet_tap returns
Awaits(t) ==
    CASE t = "pump" -> {"read"}
      [] t = "poller" -> {"sleep", "write"}
      [] t = "cs" -> {"gate"}
      [] t = "wait" -> {"changed", "done"}
      [] OTHER -> {"done"}

\* what follows the await of task t at position p: the pump reads again or ends;
\* the polling task sleeps after a write that returned Ok, and after its sleep or
\* failed write locks again, or ends once alive is cleared; current_state returns;
\* wait_for_state returns or awaits the next change
Resumes(t, p) ==
    CASE t = "pump" -> {"read", "done"}
      [] t = "poller" /\ p = "write" -> {"sleep", "want", "done"}
      [] t = "poller" /\ p = "sleep" -> {"want", "done"}
      [] t = "wait" -> {"changed", "done"}
      [] OTHER -> {"done"}

\* a current_state that keeps the guard until it returns
GuardDroppedButCs(t) == t # "cs"

\* the guard is gone when the critical section ends: a temporary of the statement
\* (pump, polling task), drop(internals) (current_state, wait_for_state), the end
\* of the function (packet_tap)
GuardDropped(t) == TRUE

\* task t reaches internals.lock().await: the pump and the polling task when they
\* start, a consumer with every call
LkWant(t) ==
    /\ lk.pc[t] = "none" \/ (lk.pc[t] = "done" /\ t \in {"cs", "wait", "tap"})
    /\ lk' = [lk EXCEPT !.pc[t] = "want"]
    /\ UNCHANGED <<sessionVars, pkt, inbound, proj, bt, disc, bus, drv, get>>

\* internals.lock().await returns the guard
LkLock(t) ==
    /\ lk.pc[t] = "want"
    /\ lk.holder = "none"
    /\ lk' = [lk EXCEPT !.pc[t] = "locked", !.holder = t]
    /\ UNCHANGED <<sessionVars, pkt, inbound, proj, bt, disc, bus, drv, get>>

\* the critical section ends and the task goes on to its await
LkLeave(t) ==
    /\ lk.pc[t] = "locked"
    /\ \E p \in Awaits(t) :
          lk' = [lk EXCEPT !.pc[t] = p,
                           !.holder = IF GuardDropped(t) \/ p = "done"
                                      THEN "none" ELSE t]
    /\ UNCHANGED <<sessionVars, pkt, inbound, proj, bt, disc, bus, drv, get>>

\* the await of task t ends (a guard still held is dropped when the call returns)
LkResume(t) ==
    /\ lk.pc[t] \in {"read", "sleep", "write", "gate", "changed"}
    /\ \E p \in Resumes(t, lk.pc[t]) :
          lk' = [lk EXCEPT !.pc[t] = p,
                           !.holder = IF lk.holder = t /\ p \in {"done", "want"}
                                      THEN "none" ELSE lk.holder]
    /\ UNCHANGED <<sessionVars, pkt, inbound, proj, bt, disc, bus, drv, get>>

LkNext ==
    \E t \in LkTasks :
       \/ LkWant(t)
       \/ LkLock(t)
       \/ LkLeave(t)
       \/ LkResume(t)

\* no task has started and no call was made: the state after Ecam::new
LkSpec ==
    /\ Init
    /\ [][LkNext]_vars
    /\ \A t \in LkTasks : WF_vars(LkLeave(t)) /\ SF_vars(LkLock(t))

(***************************************************************************)
(* The session on a device that answers: its driver gives Ready first and  *)
(* a State for every MonitorV2 request written to it, and its writes       *)
(* return Ok.  NumWaiters consumers call current_state.  A task that can   *)
(* run does run, a read returns once the device has an output to give, and *)
(* tokio's Semaphore hands its permit out in the order it was asked for.   *)
(***************************************************************************)
\* number of consumers calling current_state at once
NumWaiters == 2

\* the write of the polling task returned Ok: the device has the request (the
\* device of the model takes as many requests as it will give States)
ReadyWriteDone ==
    /\ drv.on
    /\ drv.asked + 1 < MaxReads
    /\ PollWriteStep("ok")
    /\ drv' = [drv EXCEPT !.asked = @ + 1]
    /\ UNCHANGED <<pkt, inbound, proj, bt, disc, bus, lk, get>>

\* driver.read(): Ready, then one State for every request not answered yet
ReadyRead ==
    /\ drv.on
    /\ \E out \in IF reads = 0 THEN {Out("Ready", None)}
                   ELSE IF reads - 1 < drv.asked
                   THEN {Out("State", s) : s \in MonitorStates}
                   ELSE {} :
          PumpReadStep(out)

\* the state after Ecam::new(driver) on that device, the consumers idle
ReadyInit ==
    /\ alive = TRUE
    /\ lastStatus = None
    /\ watchClosed = FALSE
    /\ permits = 0
    /\ pumpHolds = TRUE
    /\ interest = 0
    /\ tapLog = <<>>
    /\ pumpPc = "head"
    /\ pumpExit = "none"
    /\ started = FALSE
    /\ spawned = 0
    /\ reads = 0
    /\ pollPc = "none"
    /\ handles = 1
    /\ callers = [c \in 1..NumWaiters |-> NoCall]
    /\ pkt = NoPkt
    /\ inbound = NoInbound
    /\ proj = NoProj
    /\ bt = NoBt
    /\ disc = NoDisc
    /\ bus = NoBus
    /\ drv = [NoDrv EXCEPT !.on = TRUE]
    /\ lk = NoLk
    /\ get = NoGet

ReadyNext ==
    \/ PumpHead
    \/ ReadyRead
    \/ PumpRelease
    \/ PollHead
    \/ PollCheck
    \/ PollSleep
    \/ PollWrite
    \/ ReadyWriteDone
    \/ \E c \in 1..NumWaiters :
          \/ CSEnter(c)
          \/ CSAcquire(c)
          \/ CSRelease(c)
          \/ Return(c)

ReadySpec ==
    /\ ReadyInit
    /\ [][ReadyNext]_vars
    /\ WF_vars(PumpHead \/ ReadyRead \/ PumpRelease)
    /\ WF_vars(PollHead \/ PollCheck \/ PollSleep \/ PollWrite \/ ReadyWriteDone)
    /\ \A c \in 1..NumWaiters :
          WF_vars(CSRelease(c) \/ Return(c)) /\ SF_vars(CSAcquire(c))

(***************************************************************************)
(* A request from its construction to the bytes the driver writes.         *)
(***************************************************************************)
\* EcamPacket::from_represenation(request): bytes = representation.encode(); a
\* ParameterRequest panics in unimplemented!(); there is no check of the length
FromRepresentation ==
    /\ pkt.pc = "new"
    /\ pkt' = IF Encodable(pkt.req)
              THEN Pkt("packet", pkt.req, RequestEncode(pkt.req), <<>>)
              ELSE Pkt("panicked", pkt.req, <<>>, <<>>)
    /\ UNCHANGED <<sessionVars, inbound, proj, bt, disc, bus, drv, lk, get>>

\* the packet is handed to the driver's write, which calls data.packetize():
\* .expect("Packet too large") panics when the len byte does not fit
DriverWrite ==
    /\ pkt.pc = "packet"
    /\ pkt' = IF FitsU8(Len(pkt.body) + 3)
              THEN Pkt("framed", pkt.req, pkt.body, Packetize(pkt.body))
              ELSE Pkt("panicked", pkt.req, pkt.body, <<>>)
    /\ UNCHANGED <<sessionVars, inbound, proj, bt, disc, bus, drv, lk, get>>

PacketInit ==
    /\ SessionInit
    /\ pkt \in {Pkt("new", r, <<>>, <<>>) : r \in Requests}
    /\ inbound = NoInbound
    /\ proj = NoProj
    /\ bt = NoBt
    /\ disc = NoDisc
    /\ bus = NoBus
    /\ drv = NoDrv
    /\ lk = NoLk
    /\ get = NoGet

PacketNext ==
    \/ FromRepresentation
    \/ DriverWrite

PacketSpec == PacketInit /\ [][PacketNext]_vars

(***************************************************************************)
(* An inbound body through Response::decode.                               *)
(***************************************************************************)
\* Response::decode(&body): the response, or the panic of an index out of bounds
Decode ==
    /\ inbound.pc = "bytes"
    /\ inbound' = IF ResponseDecodable(inbound.body)
                  THEN Inbound("decoded", inbound.body, ResponseDecode(inbound.body))
                  ELSE Inbound("panicked", inbound.body, NoResponse)
    /\ UNCHANGED <<sessionVars, pkt, proj, bt, disc, bus, drv, lk, get>>

DecodeInit ==
    /\ SessionInit
    /\ pkt = NoPkt
    /\ inbound \in {Inbound("bytes", body, NoResponse) : body \in InboundBodies}
    /\ proj = NoProj
    /\ bt = NoBt
    /\ disc = NoDisc
    /\ bus = NoBus
    /\ drv = NoDrv
    /\ lk = NoLk
    /\ get = NoGet

DecodeSpec == DecodeInit /\ [][Decode]_vars

(***************************************************************************)
(* A MonitorState through EcamStatus::extract.                             *)
(***************************************************************************)
\* EcamStatus::extract(&state)
ExtractStatus ==
    /\ proj.pc = "state"
    /\ proj' = Proj("status", proj.s, Extract(proj.s))
    /\ UNCHANGED <<sessionVars, pkt, inbound, bt, disc, bus, drv, lk, get>>

ProjInit ==
    /\ SessionInit
    /\ pkt = NoPkt
    /\ inbound = NoInbound
    /\ proj \in {Proj("state", s, "none") : s \in [state : EcamMachineStates, progress : 0..MaxU8]}
    /\ bt = NoBt
    /\ disc = NoDisc
    /\ bus = NoBus
    /\ drv = NoDrv
    /\ lk = NoLk
    /\ get = NoGet

ProjSpec == ProjInit /\ [][ExtractStatus]_vars

(***************************************************************************)
(* A session on the BLE driver (src/src/ecam/ecam_bt.rs): the peripheral,  *)
(* the liveness watcher of EcamPeripheral::notifications and the stream    *)
(* the pump reads, under current_state calls.  Scheduling: a spawned task  *)
(* that can run does run, and a read completes once the stream has an item *)
(* or its end to give; the peripheral alone decides when it disconnects    *)
(* and whether it notifies.  tokio's Semaphore is fair (permits go out in   *)
(* the order they were asked for), so no call waits at the ready gate for  *)
(* ever while permits come back.                                           *)
(***************************************************************************)
\* the peripheral goes away
Disconnect ==
    /\ bt.connected
    /\ bt' = [bt EXCEPT !.connected = FALSE]
    /\ UNCHANGED <<sessionVars, pkt, inbound, proj, disc, bus, drv, lk, get>>

\* peripheral.is_connected().await: the truth, or an error
IsConnectedResults(connected) == {IF connected THEN "true" ELSE "false", "err"}

\* while peripheral.is_connected().await.unwrap_or_default(): an error counts as false
WatcherProbe(r) ==
    /\ bt.watcher = "poll"
    /\ bt' = [bt EXCEPT !.watcher = IF r = "true" THEN "sleep" ELSE "drop"]
    /\ UNCHANGED <<sessionVars, pkt, inbound, proj, disc, bus, drv, lk, get>>

\* tokio::time::sleep(Duration::from_millis(50))
WatcherSleep ==
    /\ bt.watcher = "sleep"
    /\ bt' = [bt EXCEPT !.watcher = "poll"]
    /\ UNCHANGED <<sessionVars, pkt, inbound, proj, disc, bus, drv, lk, get>>

\* a watcher that leaves without giving the signal
DroppedNever(trigger) == trigger

\* drop(trigger): the Tripwire fires
Dropped(trigger) == "dropped"

\* the watcher left its loop: drop(trigger), and the task ends
WatcherDrop ==
    /\ bt.watcher = "drop"
    /\ bt' = [bt EXCEPT !.watcher = "exited", !.trigger = Dropped(bt.trigger)]
    /\ UNCHANGED <<sessionVars, pkt, inbound, proj, disc, bus, drv, lk, get>>

\* what the notification stream can give to the next read.  The receiver is built
\* with wrap_start_end = true: Ready comes first.  take_until_if(tripwire) ends
\* the stream once the Trigger is dropped, whatever the device sent; until then a
\* read waits for a notification.  With `now` only what is at hand without one.
\* ecam.driver.read() on EcamBT: self.notifications.recv()
BtPumpRead(now) ==
    \E out \in IF reads = 0 THEN {Out("Ready", None)}
                ELSE IF bt.trigger = "dropped"
                THEN {Out("Done", None), Out("EndOfStream", None)}
                ELSE IF ~now /\ reads + 1 < MaxReads
                THEN {Out("Raw", None)} \cup {Out("State", s) : s \in MonitorStates}
                ELSE {} :
       PumpReadStep(out)

BtInit ==
    /\ SessionInit
    /\ pkt = NoPkt
    /\ inbound = NoInbound
    /\ proj = NoProj
    /\ bt = Bt(TRUE, "poll", "held")
    /\ disc = NoDisc
    /\ bus = NoBus
    /\ drv = NoDrv
    /\ lk = NoLk
    /\ get = NoGet

BtNext ==
    \/ Disconnect
    \/ \E r \in IsConnectedResults(bt.connected) : WatcherProbe(r)
    \/ WatcherSleep
    \/ WatcherDrop
    \/ PumpHead
    \/ BtPumpRead(FALSE)
    \/ PumpRelease
    \/ PumpClosed
    \/ PumpDrop
    \/ Poller
    \/ \E c \in Callers :
          \/ CSEnter(c)
          \/ CSAcquire(c)
          \/ CSRelease(c)
          \/ Return(c)

BtSpec ==
    /\ BtInit
    /\ [][BtNext]_vars
    /\ WF_vars(WatcherSleep \/ WatcherDrop
                  \/ \E r \in IsConnectedResults(bt.connected) : WatcherProbe(r))
    /\ WF_vars(PumpHead \/ BtPumpRead(TRUE) \/ PumpRelease \/ PumpClosed \/ PumpDrop)
    /\ WF_vars(Poller)
    /\ \A c \in Callers : WF_vars(CSRelease(c) \/ Return(c)) /\ SF_vars(CSAcquire(c))

(***************************************************************************)
(* BLE discovery (src/src/ecam/ecam_bt.rs): EcamBT::scan over the adapters *)
(* of the manager, get_ecam_from_adapter on each, EcamPeripheral::validate *)
(* on each peripheral an adapter lists.                                    *)
(***************************************************************************)
\* the manager lists up to NumAdapters adapters; a poll lists up to MaxPeripherals
NumAdapters == 2
MaxPeripherals == 2
\* for _ in 0..10
MaxPolls == 10

\* the peripherals an adapter can list: an ECAM (local name, connects, exposes the
\* characteristic), a named device without the characteristic, a device without a
\* local name, and a device whose properties are not known (properties() = None)
PeripheralLists == BoundedSeqs({"ecam", "named", "nameless", "noprops"}, MaxPeripherals)

\* a validation that takes every named peripheral
ValidateAnyNamed(peripheral) ==
    CASE peripheral = "noprops" -> "err"
      [] peripheral = "nameless" -> "none"
      [] OTHER -> "some"

\* EcamPeripheral::validate: Err(Unknown) without properties, Ok(None) without a
\* local name or without the characteristic, Ok(Some(..)) otherwise
Validate(peripheral) ==
    CASE peripheral = "noprops" -> "err"
      [] peripheral = "nameless" -> "none"
      [] peripheral = "named" -> "none"
      [] OTHER -> "some"

\* get_ecam_from_adapter returned r without a device (Ok(None) or Err): scan goes
\* on to the next adapter, and returns Err(NotFound) after the last one
AdapterReturns(d, r) ==
    IF d.a < d.n
    THEN [d EXCEPT !.pc = "start", !.a = d.a + 1, !.list = <<>>,
                   !.returns = Append(d.returns, r)]
    ELSE [d EXCEPT !.pc = "done", !.list = <<>>, !.returns = Append(d.returns, r),
                   !.result = "NotFound"]

\* the peripherals of a poll are used up: next turn of for _ in 0..10, or Ok(None)
NextPoll(d) ==
    IF d.polls < MaxPolls THEN [d EXCEPT !.pc = "sleep"] ELSE AdapterReturns(d, "none")

\* Manager::new().await? and manager.adapters().await?
ScanAdapters(r) ==
    /\ disc.pc = "adapters"
    /\ disc' = IF r = "err" THEN [disc EXCEPT !.pc = "done", !.result = "BTError"]
               ELSE IF disc.n = 0 THEN [disc EXCEPT !.pc = "done", !.result = "NotFound"]
               ELSE [disc EXCEPT !.pc = "start", !.a = 1]
    /\ UNCHANGED <<sessionVars, pkt, inbound, proj, bt, bus, drv, lk, get>>

\* adapter.start_scan(filter).await?
StartScan(r) ==
    /\ disc.pc = "start"
    /\ disc' = IF r = "err" THEN AdapterReturns(disc, "err")
               ELSE [disc EXCEPT !.pc = "sleep", !.polls = 0, !.slept = FALSE,
                                 !.scanning = disc.scanning \cup {disc.a}]
    /\ UNCHANGED <<sessionVars, pkt, inbound, proj, bt, bus, drv, lk, get>>

\* time::sleep(Duration::from_millis(500))
DiscSleep ==
    /\ disc.pc = "sleep"
    /\ disc' = [disc EXCEPT !.pc = "poll", !.slept = TRUE]
    /\ UNCHANGED <<sessionVars, pkt, inbound, proj, bt, bus, drv, lk, get>>

\* adapter.peripherals().await?
Poll(r, list) ==
    /\ disc.pc = "poll"
    /\ disc' = IF r = "err" THEN AdapterReturns(disc, "err")
               ELSE LET d == [disc EXCEPT
                                 !.polls = disc.polls + 1,
                                 !.slept = FALSE,
                                 !.list = list,
                                 !.exposed = disc.exposed
                                     \/ \E i \in DOMAIN list : list[i] = "ecam"]
                    IN  IF list = <<>> THEN NextPoll(d)
                        ELSE [d EXCEPT !.pc = "validate"]
    /\ UNCHANGED <<sessionVars, pkt, inbound, proj, bt, bus, drv, lk, get>>

\* EcamPeripheral::validate(peripheral).await? on the next peripheral of the list;
\* on Some: adapter.stop_scan(), return Ok(Some(..)), and scan returns Ok((name, id))
ValidateNext ==
    /\ disc.pc = "validate"
    /\ LET v == Validate(Head(disc.list))
           rest == [disc EXCEPT !.list = Tail(disc.list)]
       IN  disc' = CASE v = "err" -> AdapterReturns(disc, "err")
                     [] v = "some" ->
                          [disc EXCEPT !.pc = "done",
                                       !.scanning = disc.scanning \ {disc.a},
                                       !.returns = Append(disc.returns, "some"),
                                       !.result = "Ok"]
                     [] OTHER -> IF rest.list = <<>> THEN NextPoll(rest)
                                 ELSE rest
    /\ UNCHANGED <<sessionVars, pkt, inbound, proj, bt, bus, drv, lk, get>>

DiscInit ==
    /\ SessionInit
    /\ pkt = NoPkt
    /\ inbound = NoInbound
    /\ proj = NoProj
    /\ bt = NoBt
    /\ disc \in {Disc("adapters", n, 0, 0, FALSE, <<>>, {}, FALSE, <<>>, "none") :
                    n \in 0..NumAdapters}
    /\ bus = NoBus
    /\ drv = NoDrv
    /\ lk = NoLk
    /\ get = NoGet

DiscNext ==
    \/ \E r \in {"ok", "err"} : ScanAdapters(r)
    \/ \E r \in {"ok", "err"} : StartScan(r)
    \/ DiscSleep
    \/ \E r \in {"ok", "err"}, list \in PeripheralLists : Poll(r, list)
    \/ ValidateNext

DiscSpec == DiscInit /\ [][DiscNext]_vars

\* every call of the discovery returns: the adapter calls and the sleep complete
DiscFairSpec == DiscSpec /\ WF_vars(DiscNext)

(***************************************************************************)
(* Connection by id (src/src/ecam/ecam_bt.rs): EcamBT::get and             *)
(* get_ecam_from_manager, with the task it spawns and joins for every      *)
(* adapter.  Whatever can run does run; a send on a full channel and a     *)
(* recv on an empty one whose senders live wait.                           *)
(***************************************************************************)
\* Manager::new().await?, manager.adapters().await?, the check for no adapter,
\* and the channel of capacity 1
GetAdapters(r) ==
    /\ get.pc = "adapters"
    /\ get' = IF r = "err" THEN [get EXCEPT !.pc = "done", !.result = "BTError"]
              ELSE IF get.lists = <<>>
              THEN [get EXCEPT !.pc = "done", !.result = "NotFound"]
              ELSE [get EXCEPT !.pc = "scan", !.a = 1]
    /\ UNCHANGED <<sessionVars, pkt, inbound, proj, bt, disc, bus, drv, lk>>

\* adapter.start_scan(ScanFilter::default()).await?, then tokio::spawn(..)
GetStartScan(r) ==
    /\ get.pc = "scan"
    /\ get' = IF r = "err" THEN [get EXCEPT !.pc = "done", !.result = "BTError"]
              ELSE [get EXCEPT !.pc = "join", !.task = "find"]
    /\ UNCHANGED <<sessionVars, pkt, inbound, proj, bt, disc, bus, drv, lk>>

\* the task: adapter.peripherals().await?, the search for the id, and for a
\* peripheral found EcamPeripheral::connect(..).await? and notifications().await?;
\* without one the task returns Err(NotFound), which nobody reads
TaskFind(r) ==
    /\ get.task = "find"
    /\ get' = [get EXCEPT !.task =
                  IF r = "ok" /\ \E i \in 1..Len(get.lists[get.a]) :
                                    get.lists[get.a][i] = "wanted"
                  THEN "send" ELSE "ended"]
    /\ UNCHANGED <<sessionVars, pkt, inbound, proj, bt, disc, bus, drv, lk>>

\* let _ = tx.send(EcamBT { .. }).await: waits while the channel holds a message
\* (the receiver lives in get_ecam_from_manager, so the send does not fail)
TaskSend ==
    /\ get.task = "send"
    /\ Len(get.chan) < 1
    /\ get' = [get EXCEPT !.task = "ended", !.chan = Append(@, get.a)]
    /\ UNCHANGED <<sessionVars, pkt, inbound, proj, bt, disc, bus, drv, lk>>

\* let _ = tokio::spawn(..).await: the task of this adapter has ended; on to the
\* next adapter, or past the loop
GetJoin ==
    /\ get.pc = "join"
    /\ get.task = "ended"
    /\ get' = IF get.a < Len(get.lists)
              THEN [get EXCEPT !.pc = "scan", !.a = @ + 1, !.task = "none"]
              ELSE [get EXCEPT !.pc = "recv", !.task = "none"]
    /\ UNCHANGED <<sessionVars, pkt, inbound, proj, bt, disc, bus, drv, lk>>

\* Ok(rx.recv().await.expect(..)): the first message of the channel; tx lives
\* until the function returns, so an empty channel is not closed and recv waits
GetRecv ==
    /\ get.pc = "recv"
    /\ get.chan # <<>>
    /\ get' = [get EXCEPT !.pc = "done", !.result = "connected",
                          !.by = Head(get.chan), !.chan = Tail(@)]
    /\ UNCHANGED <<sessionVars, pkt, inbound, proj, bt, disc, bus, drv, lk>>

\* EcamBT::get(uuid) is called; every adapter lists up to MaxPeripherals peripherals
GetInit ==
    /\ SessionInit
    /\ pkt = NoPkt
    /\ inbound = NoInbound
    /\ proj = NoProj
    /\ bt = NoBt
    /\ disc = NoDisc
    /\ bus = NoBus
    /\ drv = NoDrv
    /\ lk = NoLk
    /\ \E n \in 0..NumAdapters :
          \E ls \in [1..n -> UNION {[1..k -> {"wanted", "other"}] :
                                      k \in 0..MaxPeripherals}] :
             get = [NoGet EXCEPT !.pc = "adapters", !.lists = ls]

GetNext ==
    \/ \E r \in {"ok", "err"} : GetAdapters(r)
    \/ \E r \in {"ok", "err"} : GetStartScan(r)
    \/ \E r \in {"ok", "err"} : TaskFind(r)
    \/ TaskSend
    \/ GetJoin
    \/ GetRecv

GetSpec == GetInit /\ [][GetNext]_vars /\ WF_vars(GetNext)

(***************************************************************************)
(* The message-bus adapter (src/src/mqtt/mod.rs): the event loop task of   *)
(* launch_server and the brew task brew_mqtt spawns for an order.  The     *)
(* session of the task is present by what it does for the task: the        *)
(* outputs its pump forwards to the packet tap and the answers of          *)
(* current_state (Ok once a State was read, Err(Unknown) when the pump     *)
(* ended without one, waiting until then).                                 *)
(***************************************************************************)
\* the event loop handles up to MaxEvents events; the session of an order forwards
\* up to MaxFeed outputs
MaxEvents == 2
MaxFeed == 3

\* what eventloop.poll() can return: Ok(Incoming(Publish)) with its dup flag, its
\* topic (under the prefix or not) and its payload (parses as BrewIn or not),
\* another event, or Err
BusEvents ==
    {[kind |-> "Publish", dup |-> d, topic |-> tp, parses |-> ps] :
        d \in BOOLEAN, tp \in BOOLEAN, ps \in BOOLEAN}
    \cup {[NoEvent EXCEPT !.kind = "Other"], [NoEvent EXCEPT !.kind = "Err"]}

\* an intake that does not look at the dup flag
SpawnsDuplicates(event) == event.kind = "Publish" /\ event.topic /\ event.parses

\* brew_mqtt is called for a Publish that is not a duplicate, is on the input topic
\* and parses as BrewIn
Spawns(event) == event.kind = "Publish" /\ ~event.dup /\ event.topic /\ event.parses

\* one turn of the event loop: match eventloop.poll().await; Err breaks the loop
EventLoopPoll(event) ==
    /\ bus.loop = "running"
    /\ bus.handled < MaxEvents
    /\ bus' = [bus EXCEPT
                  !.handled = @ + 1,
                  !.last = event,
                  !.loop = IF event.kind = "Err" THEN "stopped" ELSE @,
                  !.tasks = IF Spawns(event) THEN @ + 1 ELSE @,
                  !.pc = IF Spawns(event) /\ bus.pc = "none" THEN "setup" ELSE @]
    /\ UNCHANGED <<sessionVars, pkt, inbound, proj, bt, disc, drv, lk, get>>

\* the brew task up to its loop: the device (.expect), Ecam::new, packet_tap
\* (.expect), the beverage and the taste (.expect), validate_brew (.expect), the
\* spawn of brew: the task goes on, or panics in one of the expects
BrewSetup(r) ==
    /\ bus.pc = "setup"
    /\ bus' = [bus EXCEPT !.pc = IF r = "ok" THEN "first" ELSE "panicked"]
    /\ UNCHANGED <<sessionVars, pkt, inbound, proj, bt, disc, drv, lk, get>>

\* client.publish(..): the message is on the topic unless the broker is away
Publish(b, status) ==
    IF b.broker = "up" THEN Append(b.published, status) ELSE b.published

\* the first notification, status Ready; last_status stays None
PublishFirst ==
    /\ bus.pc = "first"
    /\ bus' = [bus EXCEPT !.pc = "tap", !.published = Publish(bus, "Ready")]
    /\ UNCHANGED <<sessionVars, pkt, inbound, proj, bt, disc, drv, lk, get>>

\* the pump of the task's session forwards an output: Ready first, then States,
\* Done when the driver is done
Feed(out) ==
    /\ bus.pc \in {"first", "tap", "state", "publish"}
    /\ Len(bus.feed) < MaxFeed
    /\ \A i \in DOMAIN bus.feed : bus.feed[i].kind # "Done"
    /\ out.kind = "Ready" <=> bus.feed = <<>>
    /\ bus' = [bus EXCEPT !.feed = Append(@, out)]
    /\ UNCHANGED <<sessionVars, pkt, inbound, proj, bt, disc, drv, lk, get>>

\* tap.next().await gave an output: Done leads to the terminal message, Ready or
\* Packet(_) to current_state
TapGave ==
    /\ bus.pc = "tap"
    /\ bus.cur < Len(bus.feed)
    /\ bus' = [bus EXCEPT
                  !.cur = @ + 1,
                  !.pc = IF bus.feed[bus.cur + 1].kind = "Done" THEN "done" ELSE "state"]
    /\ UNCHANGED <<sessionVars, pkt, inbound, proj, bt, disc, drv, lk, get>>

\* the States the session has read and whether its pump has ended
StatesOf(feed) == {i \in DOMAIN feed : feed[i].kind = "State"}
Ended(feed) == \E i \in DOMAIN feed : feed[i].kind = "Done"

\* ecam_machine.current_state().await.expect(..): Ok(status) of the latest State,
\* a panic on Err(Unknown); then the comparison with last_status
AskedState ==
    /\ bus.pc = "state"
    /\ StatesOf(bus.feed) # {} \/ Ended(bus.feed)
    /\ bus' = IF StatesOf(bus.feed) = {} THEN [bus EXCEPT !.pc = "panicked"]
              ELSE LET last == CHOOSE i \in StatesOf(bus.feed) :
                                   \A j \in StatesOf(bus.feed) : j <= i
                       status == Extract(bus.feed[last].s)
                   IN  IF bus.last_status = status THEN [bus EXCEPT !.pc = "tap"]
                       ELSE [bus EXCEPT !.pc = "publish", !.last_status = status]
    /\ UNCHANGED <<sessionVars, pkt, inbound, proj, bt, disc, drv, lk, get>>

\* client.publish(&topic, .., payload) of the new status
PublishStatus ==
    /\ bus.pc = "publish"
    /\ bus' = [bus EXCEPT !.pc = "tap", !.published = Publish(bus, bus.last_status)]
    /\ UNCHANGED <<sessionVars, pkt, inbound, proj, bt, disc, drv, lk, get>>

\* the Done arm: publish Completed
PublishCompleted ==
    /\ bus.pc = "done"
    /\ bus' = [bus EXCEPT !.pc = "linger", !.published = Publish(bus, "Completed")]
    /\ UNCHANGED <<sessionVars, pkt, inbound, proj, bt, disc, drv, lk, get>>

\* sleep(5 s), ecam_machine.send_done(), break
SendDone ==
    /\ bus.pc = "linger"
    /\ bus' = [bus EXCEPT !.pc = "join"]
    /\ UNCHANGED <<sessionVars, pkt, inbound, proj, bt, disc, drv, lk, get>>

\* brew_task.await.expect(..): the task ends and drops ecam_machine, or panics
\* because brew panicked ("Error while brewing")
Join(r) ==
    /\ bus.pc = "join"
    /\ bus' = [bus EXCEPT !.pc = IF r = "ok" THEN "finished" ELSE "panicked"]
    /\ UNCHANGED <<sessionVars, pkt, inbound, proj, bt, disc, drv, lk, get>>

BusInit ==
    /\ SessionInit
    /\ pkt = NoPkt
    /\ inbound = NoInbound
    /\ proj = NoProj
    /\ bt = NoBt
    /\ disc = NoDisc
    /\ bus \in {[NoBus EXCEPT !.loop = "running", !.broker = b] : b \in {"up", "away"}}
    /\ drv = NoDrv
    /\ lk = NoLk
    /\ get = NoGet

BusNext ==
    \/ \E event \in BusEvents : EventLoopPoll(event)
    \/ \E r \in {"ok", "panic"} : BrewSetup(r)
    \/ PublishFirst
    \/ \E out \in {Out("Ready", None), Out("Done", None)}
                     \cup {Out("State", s) : s \in MonitorStates} : Feed(out)
    \/ TapGave
    \/ AskedState
    \/ PublishStatus
    \/ PublishCompleted
    \/ SendDone
    \/ \E r \in {"ok", "panic"} : Join(r)

BusSpec == BusInit /\ [][BusNext]_vars

(***************************************************************************)
(* Properties.                                                             *)
(***************************************************************************)
TypeOK ==
    /\ alive \in BOOLEAN
    /\ lastStatus \in MonitorStates \cup {None}
    /\ watchClosed \in BOOLEAN
    /\ permits \in 0..1
    /\ pumpHolds \in BOOLEAN
    /\ interest \in 0..NumCallers
    /\ Len(tapLog) <= MaxReads
    /\ pumpPc \in {"head", "read", "release", "closed", "unwind", "exited"}
    /\ pumpExit \in {"none", "dead", "done", "error"}
    /\ spawned \in 0..MaxReads
    /\ reads \in 0..MaxReads
    /\ pollPc \in {"none", "head", "check", "sleep", "write", "inflight", "warned",
                   "closing", "exited"}
    /\ handles \in 0..MaxHandles

IsCall(c, op, pc) == callers[c].op = op /\ callers[c].pc = pc
ReadyPositions == {i \in DOMAIN tapLog : tapLog[i] = "Ready"}
OnTarget(c) == lastStatus # None /\ Extract(lastStatus) = callers[c].target

\* C1: every MonitorV2 write of the polling task is issued at a moment when the
\* status-interest counter is greater than 0.
C1_WriteOnlyWhileInterest ==
    [][(pollPc = "write" /\ pollPc' = "inflight") => interest > 0]_vars

\* C2: at most one polling task per session: exactly one is spawned once a Ready
\* was handled, none before, and later Readys spawn nothing.
C2_AtMostOnePoller ==
    /\ spawned = (IF ReadyPositions = {} THEN 0 ELSE 1)
    /\ started = (ReadyPositions # {})

C2_TwoReadyOnePoller == Cardinality(ReadyPositions) >= 2 /\ spawned = 1

\* C3: ready-gate discipline: the gate's permit is available, or held by a
\* current_state caller, only if a State was published or the pump has terminated;
\* a current_state that returned Ok has a published State behind it.
C3_ReadyGate ==
    /\ (permits >= 1 \/ \E c \in Callers : IsCall(c, "cs", "holding"))
          => (lastStatus # None \/ pumpPc = "exited")
    /\ \A c \in Callers :
          (IsCall(c, "cs", "ret") /\ callers[c].res.kind = "Ok") => lastStatus # None

C3_ReturnedOkAfterState ==
    \E c \in Callers : IsCall(c, "cs", "ret") /\ callers[c].res.kind = "Ok"
                       /\ pumpPc # "exited"

\* C4: when the stream closed (Done or end-of-stream) before any State, a
\* current_state call returns Err(Unknown), never a status, and the gate's permit
\* is free for it (available, or held by a caller about to give it back).
ClosedBeforeState == pumpPc = "exited" /\ pumpExit = "done" /\ lastStatus = None
C4_ClosedBeforeState ==
    ClosedBeforeState =>
        /\ \A c \in Callers :
              IsCall(c, "cs", "ret") => callers[c].res = Res("ErrUnknown", "none")
        /\ permits + Cardinality({c \in Callers : IsCall(c, "cs", "holding")}) = 1

C4_UnknownReturned ==
    /\ ClosedBeforeState
    /\ \E c \in Callers : IsCall(c, "cs", "ret") /\ callers[c].res.kind = "ErrUnknown"

\* C5: dropping a handle while another handle is still held leaves alive as it
\* was.
C5_DropOfCloneKeepsAlive ==
    [][(handles' = handles - 1 /\ handles' >= 1) => alive' = alive]_vars

\* C6: the alive latch is monotonic: once false it is false in every later state.
C6_AliveMonotonic == [][~alive => ~alive']_vars

C6_CallsOnDeadSession ==
    ~alive /\ handles = MaxHandles /\ \E c \in Callers : InCall(c)

\* C7: wait_for_state decides Ok only in a step in which last_status holds a State
\* projecting to the target; a check that finds anything else goes on waiting.
WaitDecidesOk(c) ==
    /\ callers[c].op = "wait"
    /\ callers[c].pc # "ret"
    /\ callers'[c].pc = "ret"
    /\ callers'[c].res.kind = "Ok"
C7_WaitOkOnlyOnTarget ==
    [][\A c \in Callers :
          /\ WaitDecidesOk(c) => OnTarget(c)
          /\ (callers[c].pc = "check" /\ callers'[c].pc # "check" /\ ~OnTarget(c))
                => callers'[c].pc = "waiting"]_vars

C7_WaitReturnedOk ==
    \E c \in Callers : IsCall(c, "wait", "ret") /\ callers[c].res.kind = "Ok"
                       /\ OnTarget(c)

\* C8 as stated: a wait_for_state that returns after the pump exited, with
\* last_status not on target, returns a transport error.
WaitReturnsOffTarget(c) ==
    /\ callers[c].op = "wait"
    /\ callers[c].pc # "ret"
    /\ callers'[c].pc = "ret"
    /\ pumpPc = "exited"
    /\ ~OnTarget(c)
C8_WaitErrorIsTransport ==
    [][\A c \in Callers :
          WaitReturnsOffTarget(c) => callers'[c].res.kind = "ErrTransport"]_vars

\* C8, amended: once the pump has exited the notification channel is closed, so a
\* pending wait_for_state is woken, and a wait_for_state that returns with
\* last_status not on target returns Err(Unknown) (never Ok).
C8_WaitErrorIsUnknown ==
    [][/\ pumpPc' = "exited" => watchClosed'
       /\ \A c \in Callers :
             WaitReturnsOffTarget(c) => callers'[c].res = Res("ErrUnknown", "none")]_vars

C8_WaitFailedAfterExit ==
    /\ pumpPc = "exited"
    /\ \E c \in Callers : IsCall(c, "wait", "ret") /\ callers[c].res.kind = "ErrUnknown"
                          /\ ~OnTarget(c)

\* C9: once the driver's read yielded Done or end-of-stream, Done is the last
\* output forwarded to the tap, no further read is made, the pump has left its loop
\* and alive is cleared by the time it is past deaden().
C9_DoneEndsPump ==
    /\ \A i \in DOMAIN tapLog :
          tapLog[i] = "Done" =>
              /\ i = Len(tapLog)
              /\ reads = i
              /\ pumpExit = "done"
              /\ pumpPc \in {"closed", "unwind", "exited"}
              /\ pumpPc \in {"unwind", "exited"} => ~alive
    /\ pumpExit = "done" => (tapLog # <<>> /\ tapLog[Len(tapLog)] = "Done")

C9_DoneAfterOutputs ==
    pumpPc = "exited" /\ pumpExit = "done" /\ Len(tapLog) >= 2 /\ reads < MaxReads

\* C10: when a transport error of the driver's read terminates the pump (the
\* poller being gone or never started), alive is false, the notification channel
\* is closed and every packet-tap stream existing at that moment sees the channel
\* closed.
C10_ReadErrorClosesConsumers ==
    [][(/\ pumpPc = "unwind"
        /\ pumpPc' = "exited"
        /\ pumpExit = "error"
        /\ pollPc \in {"none", "exited"})
          => /\ ~alive'
             /\ watchClosed'
             /\ \A c \in Callers : IsCall(c, "tap", "open") => TapClosed']_vars

\* C11: every output the pump reads is forwarded to the tap before the next read
\* (the tap grows by exactly the output read, in read order; only a read error
\* forwards nothing), a subscriber starts at the position of its subscription,
\* each delivery is the output right after the one delivered before (no gap, no
\* reordering, no duplicate), and a stream ends only after it delivered everything.
DeliveredUpTo(c) == IF callers[c].item = 0 THEN callers[c].cur ELSE callers[c].item
C11_TapOrdering ==
    [][/\ reads' # reads =>
             /\ reads' = reads + 1
             /\ \/ pumpExit' = "error" /\ tapLog' = tapLog
                \/ /\ pumpExit' # "error"
                   /\ Len(tapLog') = Len(tapLog) + 1
                   /\ SubSeq(tapLog', 1, Len(tapLog)) = tapLog
       /\ tapLog' # tapLog => reads' # reads
       /\ \A c \in Callers :
             /\ (callers[c].op # "tap" /\ callers'[c].op = "tap")
                   => (callers'[c].cur = Len(tapLog) /\ callers'[c].item = 0)
             /\ (IsCall(c, "tap", "open") /\ callers'[c].op = "tap"
                 /\ callers'[c].item # callers[c].item)
                   => /\ callers'[c].item = DeliveredUpTo(c) + 1
                      /\ callers'[c].item <= Len(tapLog)
             /\ (IsCall(c, "tap", "open") /\ callers'[c].pc = "ended")
                   => DeliveredUpTo(c) = Len(tapLog)]_vars

C11_ReceivedAll ==
    /\ Len(tapLog) = MaxReads
    /\ \E c \in Callers : IsCall(c, "tap", "open") /\ callers[c].item = MaxReads
                          /\ callers[c].cur = MaxReads

\* C12: a subscriber that fell more than the buffer capacity behind keeps its
\* stream: its next stream.next() delivers a later output and the stream neither
\* fails nor ends.
C12_LagTolerated ==
    [][\A c \in Callers :
          (IsCall(c, "tap", "open") /\ Lagging(c) /\ callers'[c] # callers[c]
           /\ callers'[c].op = "tap")
             => /\ callers'[c].pc = "open"
                /\ callers'[c].item > callers[c].item]_vars

\* C13: while the pump is in its loop, last_status is None exactly when no State
\* was read; a read of State(s) stores s, a read of anything else (Ready, Done,
\* end-of-stream, another packet, an error) leaves last_status as it was, nothing
\* else writes it; and the pump's State arm gives the gate's permit back only with
\* a State already stored.
StatesRead == {i \in DOMAIN tapLog : tapLog[i] = "State"}
C13_LastStatus ==
    [][/\ (lastStatus' = None) <=> ({i \in DOMAIN tapLog' : tapLog'[i] = "State"} = {})
       /\ \A out \in DriverOutputs :
             PumpRead(out) =>
                 lastStatus' = (IF out.kind = "State" THEN out.s ELSE lastStatus)
       /\ lastStatus' # lastStatus =>
             (reads' = reads + 1 /\ tapLog' = Append(tapLog, "State"))
       /\ PumpReadErr => lastStatus' = lastStatus
       /\ (pumpHolds /\ ~pumpHolds' /\ pumpPc' # "exited") =>
             (pumpPc = "release" /\ lastStatus # None /\ lastStatus' = lastStatus)]_vars

C13_SecondStateStored ==
    /\ Cardinality(StatesRead) >= 2
    /\ pumpPc = "head"
    /\ lastStatus # None
    /\ ~pumpHolds

\* C14: the status-interest counter is the number of current_state and
\* wait_for_state calls in progress; every call raises it by one when it starts and
\* lowers it by one when it ends, whether it returns Ok, returns an error or is
\* cancelled; it is 0 when no call is outstanding.
CallsInProgress == {c \in Callers : InCall(c)}
C15_WriteErrorReturned ==
    [][\A c \in Callers :
          Write(c, "err") =>
              /\ callers'[c].res = Res("ErrTransport", "none")
              /\ alive' = alive
              /\ <<lastStatus, watchClosed, permits, pumpHolds, interest, tapLog>>'
                    = <<lastStatus, watchClosed, permits, pumpHolds, interest, tapLog>>
              /\ <<pumpPc, pumpExit, pollPc, spawned, handles>>'
                    = <<pumpPc, pumpExit, pollPc, spawned, handles>>]_vars

C15_FailedWriteSessionRuns ==
    /\ alive
    /\ lastStatus # None
    /\ pumpPc = "read"
    /\ pollPc = "check"
    /\ \E c \in Callers : IsCall(c, "write", "ret") /\ callers[c].res.kind = "ErrTransport"

\* C16: once the polling task was started by Ready and while the session is alive,
\* a current_state call is followed by a MonitorV2 write of the polling task
\* (unless the session dies first).
C16_CallLeadsToWrite ==
    \A c \in Callers :
        (IsCall(c, "cs", "gate") /\ started /\ alive)
            ~> (pollPc = "inflight" \/ ~alive)

\* the test vectors of the specification (hex in the comments)
\* 83 f0 02 01 01 00 67 02 02 00 00 06
DocBrewBody == <<131, 240, 2, 1, 1, 0, 103, 2, 2, 0, 0, 6>>
\* 0d 0f 83 f0 02 01 01 00 67 02 02 00 00 06 77 ff
DocBrewFrame == <<13, 15, 131, 240, 2, 1, 1, 0, 103, 2, 2, 0, 0, 6, 119, 255>>
\* 83 f0 05 01 01 00 78 00 00 06
DocSecondBody == <<131, 240, 5, 1, 1, 0, 120, 0, 0, 6>>
\* 0d 0d 83 f0 05 01 01 00 78 00 00 06 c4 7e
DocSecondFrame == <<13, 13, 131, 240, 5, 1, 1, 0, 120, 0, 0, 6, 196, 126>>
\* 84 0f 02 01
DocTurnOnBody == <<132, 15, 2, 1>>
\* 0d 07 84 0f 02 01 55 12
DocTurnOnFrame == <<13, 7, 132, 15, 2, 1, 85, 18>>
FramePrefix(f) == SubSeq(f, 1, Len(f) - 2)
FrameTrailer(f) == SubSeq(f, Len(f) - 1, Len(f))

\* C17: for every body of length n <= 252 the frame is 0x0D, n+3, body, csum_hi,
\* csum_lo of length n+4, the checksum taken over the first n+2 bytes, so that
\* frame[2 .. len-2] is the body; such a body is always framed; the three documented
\* body/frame pairs hold.
C17_Framing ==
    /\ pkt.pc = "framed" =>
          LET n == Len(pkt.body)
              f == pkt.frame
          IN  /\ n <= 252
              /\ Len(f) = n + 4
              /\ f[1] = 13
              /\ f[2] = n + 3
              /\ SubSeq(f, 3, n + 2) = pkt.body
              /\ <<f[n + 3], f[n + 4]>> = Checksum(SubSeq(f, 1, n + 2))
              /\ pkt.body = DocBrewBody => f = DocBrewFrame
              /\ pkt.body = DocSecondBody => f = DocSecondFrame
              /\ pkt.body = DocTurnOnBody => f = DocTurnOnFrame
    /\ (pkt.pc = "panicked" /\ pkt.req.kind # "Parameter") => Len(pkt.body) > 252

C17_LongestBodyFramed == pkt.pc = "framed" /\ Len(pkt.body) = 252

\* C18: the checksum of a buffer is the state i, started at 7439 and stepped for
\* each byte x by a = swap_bytes(i) XOR x; b = a XOR ((a & 0xFF) >> 4);
\* c = b XOR (b << 12); i = c XOR ((c & 0xFF) << 5), modulo 2^16, emitted as
\* (i >> 8, i & 0xFF); on the three documented prefixes it is 77 FF, C4 7E, 55 12.
SwapBytes(i) == (i % 256) * 256 + (i \div 256)
StatedStep(i, x) ==
    LET a == BitXor(SwapBytes(i), x)
        b == BitXor(a, (a % 256) \div 16)
        c == BitXor(b, (b * 4096) % 65536)
    IN  BitXor(c, ((c % 256) * 32) % 65536)
RECURSIVE StatedFold(_, _, _, _)
StatedFold(i, buffer, lo, hi) ==
    IF lo > hi THEN i
    ELSE IF lo = hi THEN StatedStep(i, buffer[lo])
    ELSE LET left == StatedFold(i, buffer, lo, (lo + hi) \div 2)
         IN  IF left < 65536 THEN StatedFold(left, buffer, (lo + hi) \div 2 + 1, hi)
             ELSE left
StatedChecksum(buffer) ==
    LET i == StatedFold(7439, buffer, 1, Len(buffer)) IN <<i \div 256, i % 256>>
C18_Checksum ==
    pkt.pc = "framed" =>
        /\ FrameTrailer(pkt.frame) = StatedChecksum(FramePrefix(pkt.frame))
        /\ FramePrefix(pkt.frame) = FramePrefix(DocBrewFrame)
              => FrameTrailer(pkt.frame) = <<119, 255>>
        /\ FramePrefix(pkt.frame) = FramePrefix(DocSecondFrame)
              => FrameTrailer(pkt.frame) = <<196, 126>>
        /\ FramePrefix(pkt.frame) = FramePrefix(DocTurnOnFrame)
              => FrameTrailer(pkt.frame) = <<85, 18>>

C18_SecondVectorFramed ==
    pkt.pc = "framed" /\ FramePrefix(pkt.frame) = FramePrefix(DocSecondFrame)

\* C19: no packet whose body is longer than 252 bytes is constructed and handed
\* to a driver write.
C19_OversizeNeverWritten ==
    [][(pkt.pc = "packet" /\ pkt'.pc # "packet") => Len(pkt.body) <= 252]_vars

\* C20: Brew.Coffee, Monitor V0/V1/V2 and State.TurnOn encode to their documented
\* bodies, Raw(bytes) encodes to bytes, and the frame of the Brew.Coffee body is
\* the documented one.
C20_Encodings ==
    pkt.pc \in {"packet", "framed"} =>
        /\ pkt.req = Req("Brew", "Coffee", <<>>) => pkt.body = DocBrewBody
        /\ pkt.req = Req("Monitor", "V0", <<>>) => pkt.body = <<96, 15>>
        /\ pkt.req = Req("Monitor", "V1", <<>>) => pkt.body = <<112, 15>>
        /\ pkt.req = Req("Monitor", "V2", <<>>) => pkt.body = <<117, 15>>
        /\ pkt.req = Req("State", "TurnOn", <<>>) => pkt.body = DocTurnOnBody
        /\ pkt.req.kind = "Raw" => pkt.body = pkt.req.bytes
        /\ (pkt.req = Req("Brew", "Coffee", <<>>) /\ pkt.pc = "framed")
              => pkt.frame = DocBrewFrame

C20_BrewFramed == pkt.pc = "framed" /\ pkt.req = Req("Brew", "Coffee", <<>>)

\* the documented decode table; command.rs names the variant of byte 7 Ready, the
\* documented name of the same variant is ReadyOrDispensing
DocumentedName(tag) == IF tag = "Ready" THEN "ReadyOrDispensing" ELSE tag
DocumentedTable ==
    [b \in {0, 1, 2, 4, 5, 6, 7, 8, 10, 11, 12} |->
        CASE b = 0 -> "StandBy" [] b = 1 -> "TurningOn" [] b = 2 -> "ShuttingDown"
          [] b = 4 -> "Descaling" [] b = 5 -> "SteamPreparation" [] b = 6 -> "Recovery"
          [] b = 7 -> "ReadyOrDispensing" [] b = 8 -> "Rinsing"
          [] b = 10 -> "MilkPreparation" [] b = 11 -> "HotWaterDelivery"
          [] b = 12 -> "MilkCleaning"]
IsDocumented(st, b) ==
    IF b \in DOMAIN DocumentedTable
    THEN DocumentedName(st.tag) = DocumentedTable[b] /\ st.tag # "Unknown"
    ELSE st = Variant("Unknown", b)

\* C21: a body of at least 12 bytes that starts with 0x75 decodes to Response.State
\* whose fields are, over d = body[2..], the decoded d[5] and d[6], d[7], d[8], d[9];
\* a body with another leading byte decodes to Response.Raw holding the whole body;
\* the table bytes decode to the documented variants, every other byte b to
\* Unknown(b).
C21_DecodeDispatch ==
    LET body == inbound.body
        r == inbound.resp
    IN  /\ (inbound.pc \in {"decoded", "panicked"} /\ Len(body) >= 12 /\ body[1] = 117)
              => /\ inbound.pc = "decoded"
                 /\ r.kind = "State"
                 /\ IsDocumented(r.state.state, body[8])
                 /\ r.state.progress = body[9]
                 /\ r.state.percentage = body[10]
                 /\ r.state.load0 = body[11]
                 /\ r.state.load1 = body[12]
        /\ (inbound.pc \in {"decoded", "panicked"} /\ Len(body) >= 1 /\ body[1] # 117)
              => /\ inbound.pc = "decoded"
                 /\ r.kind = "Raw"
                 /\ r.bytes = body

C21_UnknownStateDecoded ==
    /\ inbound.pc = "decoded"
    /\ Len(inbound.body) = 13
    /\ inbound.resp.kind = "State"
    /\ inbound.resp.state.state = Variant("Unknown", 9)

\* C22: decoding an inbound body never fails or aborts, whatever the body
\* (the empty body and a 0x75 body shorter than 12 bytes included).
C22_DecodeNeverFails == inbound.pc # "panicked"

\* C23: the projection is total and deterministic: Status(s) is StandBy iff
\* s.state = StandBy, Ready iff s.state = ReadyOrDispensing and s.progress = 0, Busy
\* in every other case, and never Unknown.
C23_Projection ==
    proj.pc = "status" =>
        /\ proj.status \in {"StandBy", "Ready", "Busy"}
        /\ proj.status = "StandBy" <=> proj.s.state = "StandBy"
        /\ proj.status = "Ready"
              <=> (proj.s.state = "ReadyOrDispensing" /\ proj.s.progress = 0)
        /\ proj.status = "Busy"
              <=> /\ proj.s.state # "StandBy"
                  /\ ~(proj.s.state = "ReadyOrDispensing" /\ proj.s.progress = 0)

C23_DispensingIsBusy ==
    /\ proj.pc = "status"
    /\ proj.s.state = "ReadyOrDispensing"
    /\ proj.s.progress = 1
    /\ proj.status = "Busy"

\* C24: once the BLE peripheral has disconnected, the watcher drops the trigger, the
\* pump's read gets the end of the stream and the pump clears alive; a
\* current_state call that waits at the ready gate then returns, with the Unknown
\* error if no State was ever read.
C24_DisconnectEndsSession ==
    /\ (~bt.connected) ~> (bt.trigger = "dropped" /\ pumpExit = "done" /\ ~alive)
    /\ \A c \in Callers :
          (~bt.connected /\ IsCall(c, "cs", "gate"))
             ~> /\ IsCall(c, "cs", "ret")
                /\ lastStatus = None => callers[c].res = Res("ErrUnknown", "none")

C24_UnknownAfterDisconnect ==
    /\ ~bt.connected
    /\ bt.trigger = "dropped"
    /\ ~alive
    /\ lastStatus = None
    /\ \E c \in Callers : IsCall(c, "cs", "ret") /\ callers[c].res = Res("ErrUnknown", "none")

\* get_ecam_from_adapter returns r in this step
AdapterReturned(r) ==
    /\ Len(disc'.returns) > Len(disc.returns)
    /\ disc'.returns[Len(disc'.returns)] = r
DiscoveryStep ==
    /\ AdapterReturned("some") <=> (disc.pc = "validate" /\ Head(disc.list) = "ecam")
    /\ AdapterReturned("some") => (disc.a \notin disc'.scanning)
    /\ AdapterReturned("none") => (/\ disc'.polls = MaxPolls
                                   /\ disc.pc \in {"poll", "validate"}
                                   /\ disc.pc = "validate" => Len(disc.list) = 1)

\* C25: discovery on one adapter terminates: it polls the adapter at most 10 times,
\* each poll after a sleep of 500 ms; it returns a device exactly when validate
\* meets a peripheral with a local name and the characteristic, at that peripheral,
\* with the scan of the adapter stopped; it returns no device only after 10 polls
\* whose peripherals are all used up.
C25_DiscoveryTerminates ==
    /\ [](disc.polls <= MaxPolls /\ (disc.pc = "poll" => disc.slept))
    /\ [][DiscoveryStep]_vars
    /\ <>(disc.pc = "done")

C25_FoundOnLastPoll ==
    /\ disc.pc = "done"
    /\ disc.polls = MaxPolls
    /\ disc.returns = <<"none", "some">>
    /\ disc.scanning = {1}

\* C26: scan returns NotFound only when no adapter listed a matching peripheral
\* during its polls; whenever one did, scan returns its name and id.
C26_NotFoundOnlyWithoutDevice ==
    (disc.pc = "done" /\ disc.exposed) => disc.result = "Ok"

\* C27: a Publish flagged as duplicate starts no brew task; a Publish that is not a
\* duplicate, is on the input topic and carries a payload that parses starts
\* exactly one; a payload that does not parse starts none and leaves the event
\* loop running.
C27_Intake ==
    [][bus'.handled = bus.handled + 1 =>
          LET e == bus'.last IN
          /\ (e.kind = "Publish" /\ e.dup) => bus'.tasks = bus.tasks
          /\ (e.kind = "Publish" /\ ~e.dup /\ e.topic /\ e.parses)
                => bus'.tasks = bus.tasks + 1
          /\ (e.kind = "Publish" /\ ~e.parses)
                => (bus'.tasks = bus.tasks /\ bus'.loop = "running")]_vars

C27_LoopSurvivesBadPayload ==
    /\ bus.handled = 2
    /\ bus.tasks = 1
    /\ bus.last = [kind |-> "Publish", dup |-> FALSE, topic |-> TRUE, parses |-> FALSE]
    /\ bus.loop = "running"

\* C28: no two consecutive messages published for an order carry the same status.
C28_NoRepeatedStatus ==
    bus.broker = "up" =>
        \A i \in 1..(Len(bus.published) - 1) : bus.published[i] # bus.published[i + 1]

\* C29: the session of an accepted order is torn down (its brew task ends and drops
\* the session) only after the terminal Completed was published, as the last
\* message of the order, once the packet tap has ended.
C29_CompletedBeforeTeardown ==
    (bus.broker = "up" /\ Ended(bus.feed) /\ bus.pc \in {"finished", "panicked"})
        => /\ bus.published # <<>>
           /\ bus.published[Len(bus.published)] = "Completed"

\* C30: a MonitorV2 write of the polling task that fails or exceeds its deadline
\* neither ends the task nor clears alive: the task warns and goes back to the head
\* of its loop; it leaves the loop only from the head, having read alive = false,
\* and alive is false once it has left.
C30_PollerSurvivesWriteFailure ==
    [][/\ (pollPc = "inflight" /\ pollPc' # "inflight")
             => (pollPc' \in {"sleep", "warned", "head"} /\ alive' = alive)
       /\ (pollPc = "warned" /\ pollPc' # "warned")
             => (pollPc' = "head" /\ alive' = alive)
       /\ (pollPc # "closing" /\ pollPc' = "closing") => (pollPc = "head" /\ ~alive)
       /\ (pollPc # "exited" /\ pollPc' = "exited") => (pollPc = "closing" /\ ~alive')
      ]_vars

C30_WarnedAndAlive == pollPc = "warned" /\ alive /\ interest > 0

\* C31: the polling task never busy-waits: it comes back to the head of its loop
\* only out of a timed suspension, that is from a sleep (100 ms idle, 250 ms after
\* a write) or from a write that ran into its 250 ms deadline, so that a sleep lies
\* between two consecutive write attempts.  (The task starts at the head when the
\* pump spawns it.)
C31_EveryIterationSleeps ==
    [][(pollPc' = "head" /\ pollPc # "head")
          => pollPc \in {"none", "sleep", "inflight"}]_vars

\* C32: once alive is cleared both session tasks observe it and exit.  The polling
\* task starts no further iteration (so it issues at most the write of the
\* iteration in progress), leaves its loop at its next head check and
\* terminates; the pump starts no further read, handles at most the output of the
\* read that is outstanding, and exits once it is not waiting in that read.
DeadStep ==
    /\ (pollPc = "head" /\ pollPc' # "head") => pollPc' = "closing"
    /\ pollPc' \in {"check", "write"} => pollPc \in {"check", "write"}
    /\ pollPc' = "inflight" => pollPc \in {"write", "inflight"}
    /\ (pumpPc = "head" /\ pumpPc' # "head") => pumpPc' = "closed"
    /\ pumpPc' = "read" => pumpPc = "read"
    /\ reads' # reads => (pumpPc = "read" /\ reads' = reads + 1)
C32_TasksExitOnceDead ==
    /\ [][~alive => DeadStep]_vars
    /\ (~alive) ~> (pollPc \in {"none", "exited"})
    /\ (~alive /\ pumpPc # "read") ~> (pumpPc = "exited")

\* a handle was dropped while both tasks ran; the pump found alive cleared at its
\* loop head after the read that was outstanding, and both tasks have exited
C32_BothExitedAfterDrop ==
    /\ pumpExit = "dead" /\ pumpPc = "exited" /\ pollPc = "exited"
    /\ reads >= 2 /\ handles >= 1

\* C33: the internals lock is held only inside a critical section, never by a task
\* suspended on the ready gate, on a last_status change, on a driver read or
\* write or on a sleep; and whatever the pump, the polling task, current_state,
\* wait_for_state and packet_tap do, a task that asks for the lock gets it.
C33_LockNeverHeldAcrossAwait ==
    /\ [](lk.holder # "none" => lk.pc[lk.holder] = "locked")
    /\ \A t \in LkTasks : (lk.pc[t] = "want") ~> (lk.pc[t] = "locked")

\* the polling task asks for the lock while packet_tap holds it, with the pump
\* in a read, current_state at the ready gate and wait_for_state awaiting a change
C33_WaitsWhileOthersSuspended ==
    /\ lk.pc["poller"] = "want" /\ lk.holder = "tap"
    /\ lk.pc["pump"] = "read" /\ lk.pc["cs"] = "gate" /\ lk.pc["wait"] = "changed"

\* C34: on a driver that gives Ready and answers every MonitorV2 request with a
\* State, every current_state call returns, and returns Ok, however many calls
\* run at once: no call is past the gate before the first State was published,
\* and a call waiting at the gate gets the single permit and gives it back.
C34_EveryCallReturnsOk ==
    /\ [](\A c \in 1..NumWaiters :
            /\ callers[c].pc \in {"holding", "ret"} => lastStatus # None
            /\ callers[c].pc = "ret" => callers[c].res.kind = "Ok")
    /\ \A c \in 1..NumWaiters :
          (callers[c].pc = "gate") ~> (callers[c].pc = "ret")

\* one call waits at the gate while another holds the permit, and a third State
\* is not needed: the first has been published
C34_WaitsBehindAnother ==
    /\ callers[1].pc = "gate" /\ callers[2].pc = "holding"
    /\ lastStatus # None /\ interest = 2

\* the adapters that list a peripheral with the requested id
Seeing == {a \in 1..Len(get.lists) :
              \E i \in 1..Len(get.lists[a]) : get.lists[a][i] = "wanted"}

\* C35: EcamBT::get always terminates, with a connected driver only if some adapter
\* lists a peripheral with the requested id, and with NotFound when there is no
\* adapter or when no adapter lists such a peripheral.
C35_GetTerminates ==
    /\ <>(get.pc = "done")
    /\ [](get.pc = "done" =>
             /\ get.result = "connected" => get.by \in Seeing
             /\ (get.result # "BTError" /\ Seeing = {}) => get.result = "NotFound")

\* C36: when more than one adapter lists the requested peripheral, the task of a
\* later adapter that has connected is never left waiting to hand its EcamBT to
\* the channel while get waits for that task.
C36_LaterTaskNeverBlocked ==
    ~(get.pc = "join" /\ get.task = "send" /\ Len(get.chan) >= 1)

Spec == Init /\ [][Next]_vars
====
